---- MODULE Spec2Model ----
(***************************************************************************)
(* Dungeon document validator, legacy importer, /api/dungeon route with    *)
(* its file and Supabase adapters, /api/endpoints and /api/custom routes   *)
(* and the import flow of the dungeons page of dungeoncrawler-api.         *)
(*                                                                         *)
(* A document is a JSON object: a TLA+ record whose DOMAIN is the set of   *)
(* properties the object carries.  A property that is absent (undefined in *)
(* JavaScript) is a field that is not in the DOMAIN of the record.         *)
(* Strings that the code builds from templates (error fields, messages)    *)
(* are kept as the tuple / record of the parts the template interpolates.  *)
(***************************************************************************)
EXTENDS Integers, Sequences, FiniteSets, TLC

VARIABLES
  dungeon,    \* the candidate document handed to validateDungeon
  pc,         \* position of the caller: "input", "validated", ...
  result,     \* what the call produced: NoResult, Threw or Returned(errors)
  allRooms,   \* the local allRooms of validateDungeon when it ended
  legacy,     \* the legacy document handed to convertLegacyFormat
  ids,        \* the values generateId returns, call after call
  converted,  \* what convertLegacyFormat produced
  request,    \* the /api/dungeon request being handled
  stored,     \* the dungeons in the data file
  handed,     \* the document the route handed to the storage adapter
  response,   \* the response of the route
  mode,       \* the storage adapter in use: "file" or "supabase"
  database,   \* the tables of the Supabase database
  endpoints,  \* the endpoint configurations in the configuration file
  inflight,   \* the requests being handled, each between two of its awaits
  editor      \* the view and the selected dungeon of the dungeons page

validatorVars == <<dungeon, pc, result, allRooms>>
importVars == <<legacy, ids, converted>>
routeVars == <<request, stored, handed, response>>
siteVars == <<mode, database, endpoints, inflight, editor>>
vars == <<dungeon, pc, result, allRooms, legacy, ids, converted,
          request, stored, handed, response,
          mode, database, endpoints, inflight, editor>>

-----------------------------------------------------------------------------
(* Bounds of the explored inputs *)

MaxRooms == 2
MaxFloors == 2
MaxCoord == 1
MaxConns == 2
MaxMonsters == 2
MaxLevel == 2

-----------------------------------------------------------------------------
(* JavaScript object helpers *)

Has(obj, f) == f \in DOMAIN obj

NoResult == [kind |-> "none"]
NotUsed == [notUsed |-> TRUE]
Threw == [kind |-> "threw"]
Returned(errs) == [kind |-> "returned", valid |-> (Len(errs) = 0), errors |-> errs]

-----------------------------------------------------------------------------
(* Error objects {field, message} pushed by validateDungeon *)

ErrNoRooms ==
  [field |-> <<"rooms">>,
   message |-> [text |-> "Dungeon must have at least one floor with rooms"]]

ErrEntrance ==
  [field |-> <<"rooms">>,
   message |-> [text |-> "Dungeon must have at least one entrance room"]]

ErrBoss ==
  [field |-> <<"rooms">>,
   message |-> [text |-> "Dungeon must have at least one boss room"]]

ErrDepth(depth, nFloors) ==
  [field |-> <<"size", "depth">>,
   message |-> [text |-> "Dungeon depth should match number of floors",
                depth |-> depth, floors |-> nFloors]]

zOrZero(coordinates) ==
  IF Has(coordinates, "z") /\ coordinates.z # 0 THEN coordinates.z ELSE 0

ErrCoordinates(room) ==
  [field |-> <<"room", room.id, "coordinates">>,
   message |-> [text |-> "Duplicate coordinates found at",
                x |-> room.coordinates.x, y |-> room.coordinates.y,
                z |-> zOrZero(room.coordinates)]]

ErrNoTarget(room, connection) ==
  [field |-> <<"room", room.id, "connections">>,
   message |-> [text |-> "Connection to non-existent room",
                target |-> connection.targetRoomId]]

ErrReciprocal(room, connection, oppositeDirection) ==
  [field |-> <<"room", room.id, "connections">>,
   message |-> [text |-> "Missing reciprocal connection from room",
                target |-> connection.targetRoomId,
                direction |-> oppositeDirection]]

ErrMonsterLevel(room, monster, dungeonLevel) ==
  [field |-> <<"room", room.id, "monster", monster.id, "level">>,
   message |-> [text |-> "Monster level is not appropriate for dungeon level",
                level |-> monster.level, dungeonLevel |-> dungeonLevel]]

-----------------------------------------------------------------------------
(* DungeonValidator.validateDungeon *)

\* faulty variant: the east/west entries of the table map to themselves
getOppositeDirectionEastWest(direction) ==
  CASE direction = "north" -> "south"
    [] direction = "south" -> "north"
    [] direction = "east" -> "east"
    [] direction = "west" -> "west"
    [] OTHER -> "undefined"

getOppositeDirection(direction) ==
  CASE direction = "north" -> "south"
    [] direction = "south" -> "north"
    [] direction = "east" -> "west"
    [] direction = "west" -> "east"
    [] OTHER -> "undefined"

\* dungeon.floors && dungeon.floors.length > 0
hasFloors(d) == Has(d, "floors") /\ Len(d.floors) > 0

\* for (const floor of dungeon.floors) allRooms.push(...floor.rooms)
RECURSIVE pushFloorRooms(_, _)
pushFloorRooms(floors, i) ==
  IF i > Len(floors) THEN <<>>
  ELSE floors[i].rooms \o pushFloorRooms(floors, i + 1)

\* if (dungeon.size.depth && dungeon.size.depth !== dungeon.floors.length)
\*   errors.push({field: 'size.depth', ...})
checkDepth(d, errors) ==
  IF Has(d.size, "depth") /\ d.size.depth # 0 /\ d.size.depth # Len(d.floors)
  THEN Append(errors, ErrDepth(d.size.depth, Len(d.floors)))
  ELSE errors

\* faulty variant: only the first room is looked at
checkEntranceFirstRoom(rooms, errors) ==
  IF Len(rooms) > 0 /\ rooms[1].type = "entrance"
  THEN errors
  ELSE Append(errors, ErrEntrance)

\* allRooms.filter(room => room.type === 'entrance').length === 0
checkEntrance(rooms, errors) ==
  IF Len(SelectSeq(rooms, LAMBDA room : room.type = "entrance")) = 0
  THEN Append(errors, ErrEntrance)
  ELSE errors

\* faulty variant: else-if, the check is skipped once an error was pushed
checkBossElseIf(rooms, errors) ==
  IF Len(errors) > 0 THEN errors
  ELSE IF Len(SelectSeq(rooms, LAMBDA room : room.type = "boss")) = 0
       THEN Append(errors, ErrBoss)
       ELSE errors

checkBoss(rooms, errors) ==
  IF Len(SelectSeq(rooms, LAMBDA room : room.type = "boss")) = 0
  THEN Append(errors, ErrBoss)
  ELSE errors

\* faulty variant: the key leaves z out
coordKeyNoZ(room) == <<room.coordinates.x, room.coordinates.y, 0>>

\* `${x},${y},${z || 0}`: the three numbers, comma separated
coordKey(room) ==
  <<room.coordinates.x, room.coordinates.y, zOrZero(room.coordinates)>>

\* faulty variant: the set is replaced, not extended, so that only the
\* previous room's key is remembered
RECURSIVE checkCoordinatesPrevious(_, _, _, _)
checkCoordinatesPrevious(rooms, i, coordinateSet, errors) ==
  IF i > Len(rooms) THEN errors
  ELSE checkCoordinatesPrevious(rooms, i + 1, {coordKey(rooms[i])},
                                IF coordKey(rooms[i]) \in coordinateSet
                                THEN Append(errors, ErrCoordinates(rooms[i]))
                                ELSE errors)

\* for (const room of allRooms): the loop from room i on, coordinateSet
\* holding the keys of the rooms before i
RECURSIVE checkCoordinates(_, _, _, _)
checkCoordinates(rooms, i, coordinateSet, errors) ==
  IF i > Len(rooms) THEN errors
  ELSE checkCoordinates(rooms, i + 1, coordinateSet \cup {coordKey(rooms[i])},
                        IF coordKey(rooms[i]) \in coordinateSet
                        THEN Append(errors, ErrCoordinates(rooms[i]))
                        ELSE errors)

\* new Map(allRooms.map(room => [room.id, room])): a later room replaces an
\* earlier one with the same id
roomMapHas(rooms, id) == \E i \in 1..Len(rooms) : rooms[i].id = id

roomMapGet(rooms, id) ==
  LET last == CHOOSE i \in 1..Len(rooms) :
                /\ rooms[i].id = id
                /\ \A j \in 1..Len(rooms) : rooms[j].id = id => j <= i
  IN rooms[last]

\* targetRoom.connections.find(conn => conn.direction === oppositeDirection
\*                                     && conn.targetRoomId === room.id)
hasReciprocal(targetRoom, oppositeDirection, room) ==
  \E k \in 1..Len(targetRoom.connections) :
    /\ targetRoom.connections[k].direction = oppositeDirection
    /\ targetRoom.connections[k].targetRoomId = room.id

\* the body of the inner loop for one connection of one room
checkConnection(rooms, room, connection, errors) ==
  IF ~roomMapHas(rooms, connection.targetRoomId)
  THEN Append(errors, ErrNoTarget(room, connection))
  ELSE LET targetRoom == roomMapGet(rooms, connection.targetRoomId)
           oppositeDirection == getOppositeDirection(connection.direction)
       IN IF hasReciprocal(targetRoom, oppositeDirection, room)
          THEN errors
          ELSE Append(errors, ErrReciprocal(room, connection, oppositeDirection))

RECURSIVE checkRoomConnections(_, _, _, _)
checkRoomConnections(rooms, room, k, errors) ==
  IF k > Len(room.connections) THEN errors
  ELSE checkRoomConnections(rooms, room, k + 1,
                            checkConnection(rooms, room, room.connections[k], errors))

RECURSIVE checkConnections(_, _, _)
checkConnections(rooms, i, errors) ==
  IF i > Len(rooms) THEN errors
  ELSE checkConnections(rooms, i + 1,
                        checkRoomConnections(rooms, rooms[i], 1, errors))

\* faulty variant: exclusive bounds
checkMonsterLevelExclusive(room, monster, dungeonLevel, errors) ==
  IF monster.level <= dungeonLevel - 2 \/ monster.level >= dungeonLevel + 2
  THEN Append(errors, ErrMonsterLevel(room, monster, dungeonLevel))
  ELSE errors

\* if (monster.level < dungeon.level - 2 || monster.level > dungeon.level + 2)
checkMonsterLevel(room, monster, dungeonLevel, errors) ==
  IF monster.level < dungeonLevel - 2 \/ monster.level > dungeonLevel + 2
  THEN Append(errors, ErrMonsterLevel(room, monster, dungeonLevel))
  ELSE errors

RECURSIVE checkRoomMonsters(_, _, _, _)
checkRoomMonsters(room, k, dungeonLevel, errors) ==
  IF k > Len(room.monsters) THEN errors
  ELSE checkRoomMonsters(room, k + 1, dungeonLevel,
                         checkMonsterLevel(room, room.monsters[k], dungeonLevel, errors))

RECURSIVE checkMonsters(_, _, _, _)
checkMonsters(rooms, i, dungeonLevel, errors) ==
  IF i > Len(rooms) THEN errors
  ELSE checkMonsters(rooms, i + 1, dungeonLevel,
                     IF Has(rooms[i], "monsters")
                     THEN checkRoomMonsters(rooms[i], 1, dungeonLevel, errors)
                     ELSE errors)

\* The checks that follow room-set resolution, each pushing onto the errors
\* of the one before.  Reading a property of undefined (room.coordinates.x,
\* iterating room.connections) throws a TypeError.
runChecks(d, rooms, errors) ==
  IF \E i \in 1..Len(rooms) : ~Has(rooms[i], "coordinates") THEN Threw
  ELSE IF \E i \in 1..Len(rooms) : ~Has(rooms[i], "connections") THEN Threw
  ELSE Returned(
         checkMonsters(rooms, 1, d.level,
           checkConnections(rooms, 1,
             checkCoordinates(rooms, 1, {},
               checkBoss(rooms,
                 checkEntrance(rooms, errors))))))

validateDungeon(d) ==
  IF hasFloors(d)
  THEN IF \E i \in 1..Len(d.floors) : ~Has(d.floors[i], "rooms") THEN Threw
       ELSE IF ~Has(d, "size") THEN Threw
       ELSE runChecks(d, pushFloorRooms(d.floors, 1), checkDepth(d, <<>>))
  ELSE IF Has(d, "rooms") /\ Len(d.rooms) > 0
       THEN runChecks(d, d.rooms, <<>>)
       ELSE Returned(<<ErrNoRooms>>)

\* faulty variant: allRooms starts out as dungeon.rooms whenever there is one
allRoomsIsRoomsAlways(d) == Has(d, "rooms")

\* else if (dungeon.rooms) allRooms = dungeon.rooms: the local allRooms and
\* dungeon.rooms are one and the same array
allRoomsIsRooms(d) == ~hasFloors(d) /\ Has(d, "rooms")

\* The value of the local allRooms when validateDungeon ends
validateAllRooms(d) ==
  IF hasFloors(d)
  THEN IF \E i \in 1..Len(d.floors) : ~Has(d.floors[i], "rooms") THEN <<>>
       ELSE pushFloorRooms(d.floors, 1)
  ELSE IF Has(d, "rooms") /\ Len(d.rooms) > 0 THEN d.rooms ELSE <<>>

\* The argument when validateDungeon ends.  The function assigns to errors,
\* coordinateSet, roomMap and allRooms only; what it pushes onto allRooms it
\* pushes onto dungeon.rooms when the two are the same array.
validateArgument(d) ==
  IF allRoomsIsRooms(d) THEN [d EXCEPT !.rooms = validateAllRooms(d)] ELSE d

-----------------------------------------------------------------------------
(* DungeonValidator.validateDungeon of lib/api.ts: the flat, single-list
   validator.  It reads dungeon.rooms directly. *)

ErrCoordinatesLib(room) ==
  [field |-> <<"room", room.id, "coordinates">>,
   message |-> [text |-> "Duplicate coordinates found at",
                x |-> room.coordinates.x, y |-> room.coordinates.y]]

RECURSIVE checkCoordinatesLib(_, _, _, _)
checkCoordinatesLib(rooms, i, coordinateSet, errors) ==
  IF i > Len(rooms) THEN errors
  ELSE checkCoordinatesLib(rooms, i + 1, coordinateSet \cup {coordKey(rooms[i])},
                           IF coordKey(rooms[i]) \in coordinateSet
                           THEN Append(errors, ErrCoordinatesLib(rooms[i]))
                           ELSE errors)

validateDungeonLib(d) ==
  IF ~Has(d, "rooms") THEN Threw
  ELSE IF \E i \in 1..Len(d.rooms) : ~Has(d.rooms[i], "coordinates") THEN Threw
  ELSE IF \E i \in 1..Len(d.rooms) : ~Has(d.rooms[i], "connections") THEN Threw
  ELSE Returned(
         checkMonsters(d.rooms, 1, d.level,
           checkConnections(d.rooms, 1,
             checkCoordinatesLib(d.rooms, 1, {},
               checkBoss(d.rooms,
                 checkEntrance(d.rooms, <<>>))))))

-----------------------------------------------------------------------------
(* DungeonHelpers.getAllRooms *)

JsUndefined == [jsUndefined |-> TRUE]

\* dungeon.floors.flatMap(floor => floor.rooms): an array is flattened one
\* level, any other value (undefined) becomes an element
RECURSIVE flatMapRooms(_, _)
flatMapRooms(floors, i) ==
  IF i > Len(floors) THEN <<>>
  ELSE (IF Has(floors[i], "rooms") THEN floors[i].rooms ELSE <<JsUndefined>>)
       \o flatMapRooms(floors, i + 1)

\* faulty variant: a non-empty flat list wins over the floors
getAllRoomsFlatFirst(d) ==
  IF Has(d, "rooms") /\ Len(d.rooms) > 0 THEN d.rooms
  ELSE IF hasFloors(d) THEN flatMapRooms(d.floors, 1) ELSE <<>>

getAllRooms(d) ==
  IF hasFloors(d) THEN flatMapRooms(d.floors, 1)
  ELSE IF Has(d, "rooms") THEN d.rooms ELSE <<>>

-----------------------------------------------------------------------------
(* DungeonHelpers.convertLegacyFormat.                                     *)
(* The legacy document is untyped JSON.  null, a number and an array that  *)
(* stand where any value may stand are the records JsNull, JsNumber(n) and *)
(* JsArray(list); numeric and string properties of a legacy object hold a  *)
(* number or a string, or are absent.                                      *)

JsNull == [jsNull |-> TRUE]
JsNumber(n) == [jsNumber |-> n]
JsArray(list) == [array |-> list]

\* Array.isArray(v)
IsArray(v) == Has(v, "array")

\* reading a property of null or undefined throws a TypeError
Nullish(v) == v = JsNull \/ v = JsUndefined

\* v.f, for a v that is not nullish
Get(v, f) == IF Has(v, f) THEN v[f] ELSE JsUndefined

\* truthiness of a value that is not a bare number or string
Truthy(v) == ~Nullish(v) /\ v # JsNumber(0)

\* obj.f || fallback, for a numeric property: 0 is falsy
numberOr(obj, f, fallback) ==
  IF Has(obj, f) /\ obj[f] # 0 THEN obj[f] ELSE fallback

\* obj.f || fallback, for a string property: '' is falsy
stringOr(obj, f, fallback) ==
  IF Has(obj, f) /\ obj[f] # "" THEN obj[f] ELSE fallback

With(obj, f, v) ==
  [g \in DOMAIN obj \cup {f} |-> IF g = f THEN v ELSE obj[g]]

\* v && Array.isArray(v), for the property f of obj
hasList(obj, f) == IsArray(Get(obj, f))

\* the n-th call of generateId: `${Date.now()}-${Math.random()...}`
generateId(idStream, n) == idStream[n]

\* typeMap[legacyType] || 'empty'
mapLegacyRoomType(legacyType) ==
  CASE legacyType \in {"entrance", "boss", "treasure", "puzzle", "combat",
                       "rest", "trap", "empty"} -> legacyType
    [] legacyType \in {"lore", "story"} -> "empty"
    [] OTHER -> "empty"

\* the element of legacyRoom.monsters.map(...) for one legacy monster
convertMonster(legacyMonster, id, dungeonLevel) ==
  [id |-> id,
   name |-> stringOr(legacyMonster, "name", "Unknown Monster"),
   type |-> stringOr(legacyMonster, "specialAbility", "enemy"),
   stats |-> [health |-> numberOr(legacyMonster, "maxHealth", 50),
              attack |-> numberOr(legacyMonster, "damage", 10),
              defense |-> numberOr(legacyMonster, "defense", 5),
              speed |-> numberOr(legacyMonster, "agility", 10)],
   level |-> numberOr(legacyMonster, "level", dungeonLevel),
   description |-> [name |-> stringOr(legacyMonster, "name", "Unknown Monster"),
                    level |-> numberOr(legacyMonster, "level", dungeonLevel)],
   loot |-> IF numberOr(legacyMonster, "goldValue", 0) # 0
            THEN <<[gold |-> legacyMonster.goldValue]>> ELSE <<>>]

\* legacyRoom.monsters.map(...): the k-th monster takes the id of call n + k
convertMonsters(legacyMonsters, idStream, n, dungeonLevel) ==
  [k \in 1..Len(legacyMonsters) |->
     convertMonster(legacyMonsters[k], generateId(idStream, n + k), dungeonLevel)]

rewardOf(obj) ==
  IF numberOr(obj, "rewardGold", 0) # 0 THEN [gold |-> obj.rewardGold]
  ELSE JsUndefined

convertPuzzle(puzzle, id) ==
  [id |-> id,
   type |-> stringOr(puzzle, "type", "riddle"),
   difficulty |-> "Medium",
   description |-> stringOr(puzzle, "description",
                            stringOr(puzzle, "question", "")),
   solution |-> Get(puzzle, "answer"),
   reward |-> rewardOf(puzzle)]

\* c?.text || ''  and  c?.outcome?.description || ''
choiceText(c) == IF Nullish(c) THEN "" ELSE stringOr(c, "text", "")
choiceOutcome(c) ==
  IF Nullish(c) \/ Nullish(Get(c, "outcome")) THEN ""
  ELSE stringOr(c.outcome, "description", "")

\* storyEvent.choices?.map(...) || []
storyChoices(storyEvent) ==
  IF Nullish(Get(storyEvent, "choices")) THEN <<>>
  ELSE storyEvent.choices.array

convertStory(storyEvent, id) ==
  [id |-> id,
   title |-> stringOr(storyEvent, "title", "Story Event"),
   description |-> stringOr(storyEvent, "description", ""),
   choices |-> [k \in 1..Len(storyChoices(storyEvent)) |->
                  choiceText(storyChoices(storyEvent)[k])],
   consequences |-> [k \in 1..Len(storyChoices(storyEvent)) |->
                       choiceOutcome(storyChoices(storyEvent)[k])]]

convertLore(loreEntry, id) ==
  [id |-> id,
   title |-> stringOr(loreEntry, "title", "Lore Entry"),
   content |-> stringOr(loreEntry, "text", ""),
   discovered |-> FALSE]

convertSecret(secret, id) ==
  [id |-> id,
   type |-> "treasure",
   description |-> stringOr(secret, "description", "A hidden treasure"),
   reward |-> rewardOf(secret)]

\* the number of generateId calls each part of a legacy room makes
monsterIds(legacyRoom) ==
  IF hasList(legacyRoom, "monsters") THEN Len(legacyRoom.monsters.array) ELSE 0
partIds(legacyRoom, f) == IF Truthy(Get(legacyRoom, f)) THEN 1 ELSE 0
roomIds(legacyRoom) ==
  1 + monsterIds(legacyRoom) + partIds(legacyRoom, "puzzle")
    + partIds(legacyRoom, "storyEvent") + partIds(legacyRoom, "loreEntry")
    + partIds(legacyRoom, "secret")

\* faulty variant: the converted room keeps the legacy id
newRoomIdLegacy(legacyRoom, idStream, n) ==
  IF Has(legacyRoom, "id") THEN ToString(legacyRoom.id) ELSE "undefined"

\* const newRoomId = this.generateId()
newRoomId(legacyRoom, idStream, n) == generateId(idStream, n)

\* coordinates: {x: legacyRoom.x || 0, y: legacyRoom.y || 0}
roomCoordinates(legacyRoom) ==
  [x |-> numberOr(legacyRoom, "x", 0), y |-> numberOr(legacyRoom, "y", 0)]

\* the room literal of the first pass, before its optional parts
newRoom(legacyRoom, idStream, n) ==
  [id |-> newRoomId(legacyRoom, idStream, n),
   type |-> mapLegacyRoomType(IF Has(legacyRoom, "type") THEN legacyRoom.type
                              ELSE "undefined"),
   coordinates |-> roomCoordinates(legacyRoom),
   description |-> stringOr(legacyRoom, "description", ""),
   connections |-> <<>>,
   visited |-> FALSE,
   cleared |-> FALSE]

withMonsters(room, legacyRoom, idStream, n, dungeonLevel) ==
  IF hasList(legacyRoom, "monsters")
  THEN With(room, "monsters",
            convertMonsters(legacyRoom.monsters.array, idStream, n, dungeonLevel))
  ELSE room

\* the value assigned to room.puzzle, room.story, room.lore, room.secrets
convertPart(to, part, id) ==
  CASE to = "puzzle" -> convertPuzzle(part, id)
    [] to = "story" -> convertStory(part, id)
    [] to = "lore" -> <<convertLore(part, id)>>
    [] to = "secrets" -> <<convertSecret(part, id)>>

\* if (legacyRoom[from]) room[to] = ...: an optional part takes the id of
\* call n + 1 when it is present
withPart(st, legacyRoom, from, to, idStream) ==
  IF Truthy(Get(legacyRoom, from))
  THEN [n |-> st.n + 1,
        room |-> With(st.room, to,
                      convertPart(to, legacyRoom[from],
                                  generateId(idStream, st.n + 1)))]
  ELSE st

\* one iteration of the first pass: the room built from the legacy room
\* whose first generateId call is call n
convertRoom(legacyRoom, idStream, n, dungeonLevel) ==
  LET base == withMonsters(newRoom(legacyRoom, idStream, n), legacyRoom,
                           idStream, n, dungeonLevel)
      s0 == [n |-> n + monsterIds(legacyRoom), room |-> base]
      s1 == withPart(s0, legacyRoom, "puzzle", "puzzle", idStream)
      s2 == withPart(s1, legacyRoom, "storyEvent", "story", idStream)
      s3 == withPart(s2, legacyRoom, "loreEntry", "lore", idStream)
      s4 == withPart(s3, legacyRoom, "secret", "secrets", idStream)
  IN s4.room

\* first pass: for (const legacyRoom of legacyDungeon.rooms) ... push(room)
RECURSIVE firstPass(_, _, _, _, _)
firstPass(legacyRooms, i, idStream, n, dungeonLevel) ==
  IF i > Len(legacyRooms) THEN <<>>
  ELSE <<convertRoom(legacyRooms[i], idStream, n, dungeonLevel)>>
       \o firstPass(legacyRooms, i + 1, idStream,
                    n + roomIds(legacyRooms[i]), dungeonLevel)

\* faulty variant: north and south are exchanged
stepTargetNorthDown(fromCoords, direction) ==
  CASE direction = "north" -> [x |-> fromCoords.x, y |-> fromCoords.y + 1]
    [] direction = "south" -> [x |-> fromCoords.x, y |-> fromCoords.y - 1]
    [] direction = "east" -> [x |-> fromCoords.x + 1, y |-> fromCoords.y]
    [] direction = "west" -> [x |-> fromCoords.x - 1, y |-> fromCoords.y]
    [] OTHER -> [x |-> fromCoords.x, y |-> fromCoords.y]

\* the cell one step from fromCoords; any other direction leaves it in place
stepTarget(fromCoords, direction) ==
  CASE direction = "north" -> [x |-> fromCoords.x, y |-> fromCoords.y - 1]
    [] direction = "south" -> [x |-> fromCoords.x, y |-> fromCoords.y + 1]
    [] direction = "east" -> [x |-> fromCoords.x + 1, y |-> fromCoords.y]
    [] direction = "west" -> [x |-> fromCoords.x - 1, y |-> fromCoords.y]
    [] OTHER -> [x |-> fromCoords.x, y |-> fromCoords.y]

\* rooms.find(room => room.coordinates.x === targetX && ... y === targetY)
findRoomByDirection(rooms, fromCoords, direction) ==
  LET target == stepTarget(fromCoords, direction)
      hits == {j \in 1..Len(rooms) : /\ rooms[j].coordinates.x = target.x
                                     /\ rooms[j].coordinates.y = target.y}
  IN IF hits = {} THEN JsUndefined
     ELSE rooms[CHOOSE j \in hits : \A h \in hits : j <= h]

\* faulty variant: a connection is pushed for every resolved direction
pushConnectionAlways(room, direction, targetRoom) ==
  IF targetRoom = JsUndefined THEN room
  ELSE [room EXCEPT !.connections =
          Append(@, [direction |-> direction, targetRoomId |-> targetRoom.id,
                     locked |-> FALSE, hidden |-> FALSE])]

\* if (targetRoom) if (!room.connections.find(conn => conn.targetRoomId ===
\*   targetRoom.id)) room.connections.push({direction, targetRoomId, ...})
pushConnection(room, direction, targetRoom) ==
  IF targetRoom = JsUndefined THEN room
  ELSE IF \E c \in 1..Len(room.connections) :
            room.connections[c].targetRoomId = targetRoom.id
       THEN room
       ELSE [room EXCEPT !.connections =
               Append(@, [direction |-> direction,
                          targetRoomId |-> targetRoom.id,
                          locked |-> FALSE, hidden |-> FALSE])]

\* for (const direction of legacyRoom.connections) ...
RECURSIVE connectRoom(_, _, _, _)
connectRoom(rooms, i, directions, k) ==
  IF k > Len(directions) THEN rooms
  ELSE connectRoom(
         [rooms EXCEPT ![i] =
            pushConnection(@, directions[k],
                           findRoomByDirection(rooms, @.coordinates,
                                               directions[k]))],
         i, directions, k + 1)

\* second pass: for (let i = 0; i < legacyDungeon.rooms.length; i++) ...
RECURSIVE secondPass(_, _, _)
secondPass(legacyRooms, rooms, i) ==
  IF i > Len(legacyRooms) THEN rooms
  ELSE secondPass(legacyRooms,
                  IF hasList(legacyRooms[i], "connections")
                  THEN connectRoom(rooms, i, legacyRooms[i].connections.array, 1)
                  ELSE rooms,
                  i + 1)

\* the number of generateId calls one legacy dungeon makes
dungeonIds(legacyDungeon) ==
  1 + (IF hasList(legacyDungeon, "rooms")
       THEN LET legacyRooms == legacyDungeon.rooms.array
                RECURSIVE sum(_)
                sum(i) == IF i > Len(legacyRooms) THEN 0
                          ELSE roomIds(legacyRooms[i]) + sum(i + 1)
            IN sum(1)
       ELSE 0)

\* level: legacyDungeon.level || 1
dungeonLevelOf(legacyDungeon) == numberOr(legacyDungeon, "level", 1)

\* one iteration of the loop over legacyData.dungeons; the dungeon takes the
\* id of call n, its rooms the calls that follow
convertDungeon(legacyDungeon, idStream, n) ==
  LET level == dungeonLevelOf(legacyDungeon)
      hasRooms == hasList(legacyDungeon, "rooms")
  IN [id |-> generateId(idStream, n),
      name |-> [text |-> "Level {level} Dungeon", level |-> level],
      difficulty |-> "Medium",
      level |-> level,
      size |-> [width |-> numberOr(legacyDungeon, "size", 10),
                height |-> numberOr(legacyDungeon, "size", 10)],
      description |-> [text |-> "A level {level} dungeon with {rooms} rooms",
                       level |-> level,
                       rooms |-> IF hasRooms
                                 THEN Len(legacyDungeon.rooms.array) ELSE 0],
      rooms |-> IF hasRooms
                THEN secondPass(legacyDungeon.rooms.array,
                                firstPass(legacyDungeon.rooms.array, 1,
                                          idStream, n + 1, level),
                                1)
                ELSE <<>>,
      createdAt |-> "now",
      updatedAt |-> "now"]

RECURSIVE convertDungeons(_, _, _, _)
convertDungeons(legacyDungeons, k, idStream, n) ==
  IF k > Len(legacyDungeons) THEN <<>>
  ELSE <<convertDungeon(legacyDungeons[k], idStream, n)>>
       \o convertDungeons(legacyDungeons, k + 1, idStream,
                          n + dungeonIds(legacyDungeons[k]))

\* The property reads that throw a TypeError: of a null monster, of a null
\* room, of choices that have no map method, of a null dungeon record
monstersThrow(legacyRoom) ==
  /\ hasList(legacyRoom, "monsters")
  /\ \E k \in 1..Len(legacyRoom.monsters.array) :
       Nullish(legacyRoom.monsters.array[k])

storyThrows(legacyRoom) ==
  /\ Truthy(Get(legacyRoom, "storyEvent"))
  /\ Truthy(Get(legacyRoom.storyEvent, "choices"))
  /\ ~IsArray(legacyRoom.storyEvent.choices)

roomThrows(legacyRoom) ==
  Nullish(legacyRoom) \/ monstersThrow(legacyRoom) \/ storyThrows(legacyRoom)

dungeonThrows(legacyDungeon) ==
  \/ Nullish(legacyDungeon)
  \/ /\ hasList(legacyDungeon, "rooms")
     /\ \E i \in 1..Len(legacyDungeon.rooms.array) :
          roomThrows(legacyDungeon.rooms.array[i])

ConvertThrew == [kind |-> "threw"]
ConvertReturned(dungeons) == [kind |-> "returned", dungeons |-> dungeons]

\* !legacyData.dungeons reads a property of legacyData
nullDocumentThrows(legacyData) == Nullish(legacyData)

convertLegacyFormat(legacyData, idStream) ==
  IF nullDocumentThrows(legacyData) THEN ConvertThrew
  ELSE IF ~hasList(legacyData, "dungeons") THEN ConvertReturned(<<>>)
  ELSE IF \E k \in 1..Len(legacyData.dungeons.array) :
            dungeonThrows(legacyData.dungeons.array[k])
       THEN ConvertThrew
       ELSE ConvertReturned(convertDungeons(legacyData.dungeons.array, 1,
                                            idStream, 1))

-----------------------------------------------------------------------------
(* The candidate documents explored.  Ids are opaque strings. *)

IdName == <<"r1", "r2", "r3", "r4", "r5">>
TypeByPosition == <<"entrance", "boss", "combat", "treasure", "empty">>
Directions == {"north", "south", "east", "west"}
StructTypes == {"entrance", "boss", "combat"}

SeqsUpTo(S, n) == UNION {[1..k -> S] : k \in 0..n}

\* A well-formed room with no connections and no monsters, in its own cell
BaseRoom(i) ==
  [id |-> IdName[i], type |-> TypeByPosition[i],
   coordinates |-> [x |-> i - 1, y |-> 0],
   description |-> "room", connections |-> <<>>]

BaseRooms(n) == [i \in 1..n |-> BaseRoom(i)]

Size == [width |-> 5, height |-> 5]
SizeWithDepth(depth) == [width |-> 5, height |-> 5, depth |-> depth]

Floor(number, rooms) ==
  [floorNumber |-> number, name |-> "floor", description |-> "floor",
   rooms |-> rooms]

\* rooms dealt to f floors: floor j gets the rooms after cut[j-1] up to cut[j]
FloorsByCuts(rooms, f, cut) ==
  [j \in 1..f |->
     Floor(j, SubSeq(rooms,
                     (IF j = 1 THEN 0 ELSE cut[j - 1]) + 1,
                     IF j = f THEN Len(rooms) ELSE cut[j]))]

Cuts(f, n) ==
  {cut \in [1..(f - 1) -> 0..n] :
     \A i, j \in 1..(f - 1) : i < j => cut[i] <= cut[j]}

EvenCut(f, n) == [j \in 1..(f - 1) |-> (j * n) \div f]

FlatDungeon(level, rooms) ==
  [id |-> "d1", name |-> "dungeon", difficulty |-> "Easy", level |-> level,
   size |-> Size, description |-> "dungeon", rooms |-> rooms]

FloorDungeon(level, size, flat, floors) ==
  [id |-> "d1", name |-> "dungeon", difficulty |-> "Easy", level |-> level,
   size |-> size, description |-> "dungeon", rooms |-> flat, floors |-> floors]

\* The layouts a given room list is tried in: the flat list, and the list
\* dealt evenly to MaxFloors floors with a matching size.depth
Layouts(level, rooms) ==
  {FlatDungeon(level, rooms),
   FloorDungeon(level, SizeWithDepth(MaxFloors), <<>>,
                FloorsByCuts(rooms, MaxFloors, EvenCut(MaxFloors, Len(rooms))))}

Without(obj, f) == [g \in DOMAIN obj \ {f} |-> obj[g]]

\* structure: containers, floors, size.depth and room types
InitStructure ==
  \E n \in 0..MaxRooms :
    \E types \in [1..n -> StructTypes] :
      LET rooms == [i \in 1..n |-> [BaseRoom(i) EXCEPT !.type = types[i]]]
      IN \/ dungeon = FlatDungeon(1, rooms)
         \/ dungeon = Without(FlatDungeon(1, rooms), "rooms")
         \/ dungeon = [FlatDungeon(1, rooms) EXCEPT !.size = SizeWithDepth(2)]
         \/ dungeon = FloorDungeon(1, Size, rooms, <<>>)
         \/ \E f \in 1..MaxFloors :
              \E cut \in Cuts(f, n) :
                \E size \in {Size} \cup {SizeWithDepth(k) : k \in 0..(MaxFloors + 1)} :
                  \E flat \in {<<>>, BaseRooms(1), BaseRooms(2)} :
                    \/ dungeon = FloorDungeon(1, size, flat, FloorsByCuts(rooms, f, cut))
                    \/ /\ flat = <<>>
                       /\ dungeon = Without(FloorDungeon(1, size, flat,
                                                         FloorsByCuts(rooms, f, cut)),
                                            "rooms")

\* coordinates: up to MaxRooms rooms, the first at the origin cell and the
\* others anywhere, and optionally one more room at the origin cell
ZChoices == {"absent", "0", "1"}

Coordinates(x, y, z) ==
  CASE z = "absent" -> [x |-> x, y |-> y]
    [] z = "0" -> [x |-> x, y |-> y, z |-> 0]
    [] z = "1" -> [x |-> x, y |-> y, z |-> 1]

Cells == {Coordinates(x, y, z) : x \in 0..MaxCoord, y \in 0..MaxCoord, z \in ZChoices}
OriginCells == {Coordinates(0, 0, z) : z \in ZChoices}

InitCoordinates ==
  \E n \in 1..(MaxRooms + 1) :
    \E cells \in [1..n -> Cells] :
      /\ cells[1] \in OriginCells
      /\ n > MaxRooms => cells[n] \in OriginCells
      /\ LET rooms == [i \in 1..n |-> [BaseRoom(i) EXCEPT !.coordinates = cells[i]]]
         IN dungeon \in Layouts(1, rooms)

\* connections: at most MaxConns connections in the whole dungeon, toward
\* any room id or an id that no room has; in a flat dungeon the last room
\* may instead repeat the id of the first, which leaves its own id unused
Edges(n) ==
  [from : 1..n, direction : Directions,
   targetRoomId : {IdName[i] : i \in 1..(n + 1)}]

EdgeConnection(edge) ==
  [direction |-> edge.direction, targetRoomId |-> edge.targetRoomId]

RECURSIVE ConnectionsOf(_, _, _)
ConnectionsOf(edges, i, k) ==
  IF k > Len(edges) THEN <<>>
  ELSE (IF edges[k].from = i THEN <<EdgeConnection(edges[k])>> ELSE <<>>)
       \o ConnectionsOf(edges, i, k + 1)

InitConnections ==
  \E n \in 1..MaxRooms :
    \E edges \in SeqsUpTo(Edges(n), MaxConns) :
      LET rooms == [i \in 1..n |->
                      [BaseRoom(i) EXCEPT
                         !.connections = ConnectionsOf(edges, i, 1)]]
      IN \/ dungeon \in Layouts(1, rooms)
         \/ /\ n > 1
            /\ \A k \in 1..Len(edges) : edges[k].targetRoomId # IdName[n + 1]
            /\ dungeon = FlatDungeon(1, [rooms EXCEPT ![n].id = IdName[1]])

\* monsters: at most MaxMonsters monsters in the whole dungeon, with levels
\* from dungeon.level - 3 to dungeon.level + 3; a room without monsters has
\* no monsters property or, in dungeons of fewer than two monsters, an
\* empty list
MonsterName == <<"m1", "m2", "m3", "m4">>

Placements(n, level) == [room : 1..n, level : (level - 3)..(level + 3)]

Monster(k, monsterLevel) ==
  [id |-> MonsterName[k], name |-> "monster", type |-> "enemy",
   stats |-> [health |-> 10, attack |-> 1, defense |-> 1, speed |-> 1],
   level |-> monsterLevel]

RECURSIVE MonstersOf(_, _, _)
MonstersOf(placed, i, k) ==
  IF k > Len(placed) THEN <<>>
  ELSE (IF placed[k].room = i THEN <<Monster(k, placed[k].level)>> ELSE <<>>)
       \o MonstersOf(placed, i, k + 1)

WithMonsters(room, monsters, emptyAsList) ==
  IF monsters = <<>> /\ ~emptyAsList THEN room
  ELSE [f \in DOMAIN room \cup {"monsters"} |->
          IF f = "monsters" THEN monsters ELSE room[f]]

InitMonsters ==
  \E n \in 1..MaxRooms :
    \E level \in 1..MaxLevel :
      \E placed \in SeqsUpTo(Placements(n, level), MaxMonsters) :
        \E emptyAsList \in {FALSE, Len(placed) < 2} :
          LET rooms == [i \in 1..n |->
                          WithMonsters(BaseRoom(i), MonstersOf(placed, i, 1),
                                       emptyAsList)]
          IN dungeon \in Layouts(level, rooms)

\* several defects at once: room types, cells, connections between the
\* first two rooms, monsters of the first room and size.depth, each taken
\* from a few patterns
ConnectionPatterns ==
  {<<>>,
   <<[from |-> 1, direction |-> "north", targetRoomId |-> IdName[2]]>>,
   <<[from |-> 1, direction |-> "north", targetRoomId |-> IdName[2]],
     [from |-> 2, direction |-> "south", targetRoomId |-> IdName[1]]>>,
   <<[from |-> 1, direction |-> "east", targetRoomId |-> IdName[MaxRooms + 1]],
     [from |-> 2, direction |-> "west", targetRoomId |-> IdName[1]]>>}

MonsterPatterns(level) ==
  {<<>>,
   <<[room |-> 1, level |-> level + 2]>>,
   <<[room |-> 1, level |-> level + 3]>>,
   <<[room |-> 1, level |-> level - 3], [room |-> 2, level |-> level - 2]>>}

InitMixed ==
  \E n \in 2..MaxRooms :
    \E typed, spread \in BOOLEAN :
      \E edges \in ConnectionPatterns :
        \E placed \in MonsterPatterns(MaxLevel) :
          LET rooms == [i \in 1..n |->
                 WithMonsters(
                   [BaseRoom(i) EXCEPT
                      !.type = IF typed THEN TypeByPosition[i] ELSE "combat",
                      !.coordinates = IF spread THEN @ ELSE [x |-> 0, y |-> 0],
                      !.connections = ConnectionsOf(edges, i, 1)],
                   MonstersOf(placed, i, 1), FALSE)]
          IN \/ dungeon \in Layouts(MaxLevel, rooms)
             \/ dungeon = FloorDungeon(MaxLevel, SizeWithDepth(MaxFloors + 1), <<>>,
                                       FloorsByCuts(rooms, MaxFloors,
                                                    EvenCut(MaxFloors, n)))

\* partially formed documents: one required property missing
InitPartial ==
  \E n \in 1..MaxRooms :
    \E i \in 1..n :
      \E f \in {"coordinates", "connections"} :
        LET rooms == [j \in 1..n |->
                        IF j = i THEN Without(BaseRoom(j), f) ELSE BaseRoom(j)]
            floors == FloorsByCuts(BaseRooms(n), MaxFloors, EvenCut(MaxFloors, n))
        IN \/ dungeon \in Layouts(1, rooms)
           \/ dungeon = Without(FloorDungeon(1, Size, <<>>, floors), "size")
           \/ \E k \in 1..MaxFloors :
                dungeon = FloorDungeon(1, Size, <<>>,
                            [floors EXCEPT ![k] = Without(@, "rooms")])

\* documented limits: a flat entrance-and-boss dungeon whose level, size and
\* monster numbers are at or below the limits the documentation states
InitRules ==
  \E health \in {0 - 1, 0, 10}, attack, defense, speed \in {0 - 1, 0} :
    \E width, height \in {0, 5}, depth \in {0 - 1, 0, 1}, level \in {0, 1} :
      \E sized \in BOOLEAN :
        LET monster == [Monster(1, 1) EXCEPT
                          !.stats = [health |-> health, attack |-> attack,
                                     defense |-> defense, speed |-> speed]]
            rooms == [BaseRooms(2) EXCEPT ![1] = WithMonsters(@, <<monster>>, FALSE)]
            size == [width |-> width, height |-> height]
        IN /\ ~sized => depth = 1
           /\ dungeon = [FlatDungeon(level, rooms) EXCEPT
                           !.size = IF sized THEN With(size, "depth", depth)
                                    ELSE size]

-----------------------------------------------------------------------------
(* The legacy documents explored *)

MaxDungeons == 2

\* generateId returning a new value at each call, and returning the same
\* value at each call (same millisecond, same random digits)
FreshIds(calls) == [n \in 1..calls |-> "id-" \o ToString(n)]
StuckIds(calls) == [n \in 1..calls |-> "id-1"]

\* the generateId calls a document may make
RECURSIVE sumIds(_, _)
sumIds(legacyDungeons, k) ==
  IF k > Len(legacyDungeons) THEN 0
  ELSE dungeonIds(legacyDungeons[k]) + sumIds(legacyDungeons, k + 1)

idCalls(legacyData) ==
  IF hasList(legacyData, "dungeons") THEN sumIds(legacyData.dungeons.array, 1)
  ELSE 0

LegacyDirections == <<"north", "south", "east", "west">>
LegacyCells == [x : 0..MaxCoord, y : 0..MaxCoord]

LegacyRoom(i, type, cell, directions) ==
  [id |-> i, type |-> type, x |-> cell.x, y |-> cell.y,
   connections |-> JsArray(directions)]

\* a property holding 0 left out of the object
RECURSIVE Sparse(_, _)
Sparse(obj, fields) ==
  IF fields = {} THEN obj
  ELSE LET f == CHOOSE g \in fields : TRUE
       IN Sparse(IF Has(obj, f) /\ obj[f] = 0 THEN Without(obj, f) ELSE obj,
                 fields \ {f})

LegacyDungeon(level, rooms) ==
  [level |-> level, size |-> 8, rooms |-> JsArray(rooms)]

LegacyDocument(dungeons) == [dungeons |-> JsArray(dungeons)]

\* the directions of room i among the chosen (room, direction) entries, in
\* the order north, south, east, west or in the reverse order
RECURSIVE DirectionsOf(_, _, _, _)
DirectionsOf(entries, i, k, reversed) ==
  IF k > Len(LegacyDirections) THEN <<>>
  ELSE LET d == LegacyDirections[IF reversed THEN Len(LegacyDirections) + 1 - k
                                 ELSE k]
       IN (IF <<i, d>> \in entries THEN <<d>> ELSE <<>>)
          \o DirectionsOf(entries, i, k + 1, reversed)

\* grids: up to MaxRooms rooms, the first at the origin, with up to MaxConns
\* direction entries between them
InitLegacyGrid ==
  \E n \in 1..MaxRooms :
    \E cells \in [1..n -> LegacyCells] :
      \E entries \in SUBSET ((1..n) \X {"north", "south", "east", "west"}) :
        \E reversed \in BOOLEAN :
          /\ cells[1] = [x |-> 0, y |-> 0]
          /\ Cardinality(entries) <= MaxConns
          /\ legacy = LegacyDocument(<<LegacyDungeon(1,
               [i \in 1..n |->
                  LegacyRoom(i, TypeByPosition[i], cells[i],
                             DirectionsOf(entries, i, 1, reversed))])>>)
          /\ ids = FreshIds(idCalls(legacy))

\* direction lists: a room with any list of up to MaxConns + 1 entries, also
\* repeated ones and ones that are no direction, alone or with a neighbour to
\* its south listed before or after it
InitLegacyDirections ==
  \E directions \in SeqsUpTo({"north", "south", "east", "west", "up"}, MaxConns + 1) :
    \E neighbour \in {"none", "before", "after"} :
      \E back \in {<<>>, <<"north">>} :
        LET room == LegacyRoom(1, "entrance", [x |-> 0, y |-> 0], directions)
            other == LegacyRoom(2, "boss", [x |-> 0, y |-> 1], back)
        IN /\ neighbour = "none" => back = <<>>
           /\ legacy = LegacyDocument(<<LegacyDungeon(1,
                CASE neighbour = "none" -> <<room>>
                  [] neighbour = "before" -> <<other, room>>
                  [] neighbour = "after" -> <<room, other>>)>>)
           /\ ids = FreshIds(idCalls(legacy))

LegacyMonster(maxHealth, level) ==
  [name |-> "rat", maxHealth |-> maxHealth, damage |-> 7, defense |-> 2,
   agility |-> 4, level |-> level]

\* an entrance and a boss room that list each other, the entrance holding
\* the given monsters
LegacyPair(monsters) ==
  <<With(LegacyRoom(1, "entrance", [x |-> 0, y |-> 0], <<"south">>),
         "monsters", JsArray(monsters)),
    LegacyRoom(2, "boss", [x |-> 0, y |-> 1], <<"north">>)>>

\* levels: the dungeon level absent or from 0 to MaxLevel, the level of a
\* monster absent or from -2 to MaxLevel + 2, a second monster or none,
\* properties holding 0 present or left out
InitLegacyLevels ==
  \E level \in 0..MaxLevel, monsterLevel \in (0 - 2)..(MaxLevel + 2) :
    \E levelAbsent, monsterLevelAbsent, sparse \in BOOLEAN :
      \E size \in {0, 8} :
        \E more \in 0..(MaxMonsters - 1) :
          LET monster == IF monsterLevelAbsent
                         THEN Without(LegacyMonster(30, 0), "level")
                         ELSE LegacyMonster(30, monsterLevel)
              monsters == <<monster>> \o [k \in 1..more |-> LegacyMonster(20, 1)]
              rooms == LegacyPair(monsters)
              record == [LegacyDungeon(level, rooms) EXCEPT !.size = size]
              bare == IF levelAbsent THEN Without(record, "level") ELSE record
          IN /\ levelAbsent => level = 0
             /\ monsterLevelAbsent => monsterLevel = 0
             /\ more > 0 => (size = 8 /\ ~sparse)
             /\ legacy = LegacyDocument(<<
                  IF sparse
                  THEN [Sparse(bare, {"size"}) EXCEPT !.rooms =
                          JsArray([i \in 1..Len(rooms) |->
                                     Sparse(rooms[i], {"x", "y"})])]
                  ELSE bare>>)
             /\ ids = FreshIds(idCalls(legacy))

\* monster numbers: each absent, 0 or positive
InitLegacyStats ==
  \E maxHealth, damage, defense, agility, goldValue \in {"absent", "zero", "set"} :
    \E level \in {1, MaxLevel} :
      \E name \in {"absent", "", "rat"} :
        LET Number(v, n) == IF v = "zero" THEN 0 ELSE n
            Put(obj, f, v, n) ==
              IF v = "absent" THEN obj ELSE With(obj, f, Number(v, n))
            monster ==
              Put(Put(Put(Put(Put(
                IF name = "absent" THEN [level |-> level]
                ELSE [level |-> level, name |-> name],
                "maxHealth", maxHealth, 30), "damage", damage, 7),
                "defense", defense, 2), "agility", agility, 4),
                "goldValue", goldValue, 5)
        IN /\ legacy = LegacyDocument(<<LegacyDungeon(level, LegacyPair(<<monster>>))>>)
           /\ ids = FreshIds(idCalls(legacy))

\* shapes: documents and records that are not what the importer expects
LegacyShapes ==
  {JsNull, JsNumber(5), JsNumber(0), JsArray(<<>>),
   [version |-> 1],
   [dungeons |-> JsNull],
   [dungeons |-> JsNumber(3)],
   [dungeons |-> [rooms |-> JsArray(<<>>)]],
   LegacyDocument(<<>>),
   LegacyDocument(<<JsNull>>),
   LegacyDocument(<<LegacyDungeon(1, LegacyPair(<<>>)), JsNull>>),
   LegacyDocument(<<JsNumber(5)>>),
   LegacyDocument(<<[level |-> 2]>>),
   LegacyDocument(<<[level |-> 2, rooms |-> JsNull]>>),
   LegacyDocument(<<[level |-> 2, rooms |-> JsNumber(4)]>>),
   LegacyDocument(<<[rooms |-> JsArray(<<>>)]>>),
   LegacyDocument(<<LegacyDungeon(1, <<JsNull>>)>>),
   LegacyDocument(<<LegacyDungeon(1, <<[type |-> "boss"]>>)>>),
   LegacyDocument(<<LegacyDungeon(1, <<[type |-> "lore", x |-> 1]>>)>>),
   LegacyDocument(<<LegacyDungeon(1, <<[id |-> 1, connections |-> JsNull]>>)>>),
   LegacyDocument(<<LegacyDungeon(1, <<[id |-> 1, monsters |-> JsNumber(2)]>>)>>),
   LegacyDocument(<<LegacyDungeon(1, LegacyPair(<<JsNull>>))>>)}

InitLegacyShapes ==
  /\ legacy \in LegacyShapes
  /\ \/ ids = FreshIds(idCalls(legacy))
     \/ ids = StuckIds(idCalls(legacy))

\* optional parts of a room: puzzle, story event, lore entry and secret
LegacyPuzzles ==
  <<[type |-> "riddle", question |-> "what?", answer |-> [text |-> "that"],
     rewardGold |-> 5],
    [description |-> "a lock", rewardGold |-> 0]>>
LegacyStories ==
  <<[title |-> "a voice", choices |-> JsArray(<<[text |-> "listen",
                                                outcome |-> [description |-> "ok"]],
                                               JsNull, [text |-> ""]>>)],
    [description |-> "a door"],
    [title |-> "a wall", choices |-> JsNumber(2)]>>
LegacyLores == <<[title |-> "old", text |-> "long ago"], [text |-> ""]>>
LegacySecrets == <<[description |-> "a niche", rewardGold |-> 9], [rewardGold |-> 0]>>

\* obj with property f set to samples[k], or obj itself when k is 0
Part(obj, f, samples, k) == IF k = 0 THEN obj ELSE With(obj, f, samples[k])

InitLegacyParts ==
  \E puzzle \in 0..Len(LegacyPuzzles), story \in 0..Len(LegacyStories),
     lore \in 0..Len(LegacyLores), secret \in 0..Len(LegacySecrets) :
    LET pair == LegacyPair(<<LegacyMonster(30, 1)>>)
        room == Part(Part(Part(Part(pair[1], "puzzle", LegacyPuzzles, puzzle),
                  "storyEvent", LegacyStories, story),
                  "loreEntry", LegacyLores, lore),
                  "secret", LegacySecrets, secret)
    IN /\ legacy = LegacyDocument(<<LegacyDungeon(1, <<room, pair[2]>>)>>)
       /\ ids = FreshIds(idCalls(legacy))

\* several records: up to MaxDungeons records drawn from samples, among them
\* rooms carrying the same legacy id and a room whose neighbouring cell is
\* occupied in another record only
LegacyRecords ==
  {LegacyDungeon(1, LegacyPair(<<>>)),
   LegacyDungeon(2, <<LegacyRoom(1, "entrance", [x |-> 0, y |-> 0], <<"south", "east">>)>>),
   LegacyDungeon(0, <<LegacyRoom(7, "entrance", [x |-> 0, y |-> 0], <<"east">>),
                      LegacyRoom(7, "boss", [x |-> 1, y |-> 0], <<"west">>),
                      LegacyRoom(7, "combat", [x |-> 1, y |-> 1], <<"north">>)>>),
   [level |-> 3],
   LegacyDungeon(1, <<Without(LegacyRoom(1, "entrance", [x |-> 0, y |-> 0], <<"south">>), "id"),
                      Without(LegacyRoom(2, "boss", [x |-> 0, y |-> 1], <<"north">>), "id")>>)}

InitLegacyRecords ==
  \E records \in SeqsUpTo(LegacyRecords, MaxDungeons) :
    /\ legacy = LegacyDocument(records)
    /\ \/ ids = FreshIds(idCalls(legacy))
       \/ ids = StuckIds(idCalls(legacy))

-----------------------------------------------------------------------------
(* Initial states *)

ValidatorIdle ==
  /\ dungeon = NotUsed
  /\ result = NoResult
  /\ allRooms = <<>>

ImportIdle ==
  /\ legacy = NotUsed
  /\ ids = <<>>
  /\ converted = NoResult

RouteIdle ==
  /\ request = NotUsed
  /\ stored = <<>>
  /\ handed = NotUsed
  /\ response = NoResult

SiteIdle ==
  /\ mode = "file"
  /\ database = NotUsed
  /\ endpoints = <<>>
  /\ inflight = <<>>
  /\ editor = NotUsed

Init ==
  /\ \/ InitStructure
     \/ InitCoordinates
     \/ InitConnections
     \/ InitMonsters
     \/ InitMixed
     \/ InitPartial
     \/ InitRules
  /\ pc = "input"
  /\ result = NoResult
  /\ allRooms = <<>>
  /\ ImportIdle
  /\ RouteIdle
  /\ SiteIdle

\* a legacy document about to be imported
InitImport ==
  /\ \/ InitLegacyGrid
     \/ InitLegacyDirections
     \/ InitLegacyLevels
     \/ InitLegacyStats
     \/ InitLegacyShapes
     \/ InitLegacyParts
     \/ InitLegacyRecords
  /\ pc = "legacy"
  /\ converted = NoResult
  /\ ValidatorIdle
  /\ RouteIdle
  /\ SiteIdle

-----------------------------------------------------------------------------
(* Operations *)

\* DungeonValidator.validateDungeon(dungeon)
Validate ==
  /\ pc = "input"
  /\ result' = validateDungeon(dungeon)
  /\ allRooms' = validateAllRooms(dungeon)
  /\ dungeon' = validateArgument(dungeon)
  /\ pc' = "validated"
  /\ UNCHANGED <<importVars, routeVars, siteVars>>

\* DungeonValidator.validateDungeon(dungeon) of lib/api.ts
ValidateLib ==
  /\ pc = "input"
  /\ result' = validateDungeonLib(dungeon)
  /\ pc' = "validatedLib"
  /\ UNCHANGED <<dungeon, allRooms, importVars, routeVars, siteVars>>

Next == Validate

Spec == Init /\ [][Next]_vars

\* the same documents handed to the validator of lib/api.ts
NextLib == ValidateLib

SpecLib == Init /\ [][NextLib]_vars

\* DungeonHelpers.convertLegacyFormat(legacy).  No statement of the function
\* assigns to the document or to an object reached from it: every push and
\* every set has an object the function created as its target.
Convert ==
  /\ pc = "legacy"
  /\ converted' = convertLegacyFormat(legacy, ids)
  /\ legacy' = legacy
  /\ pc' = "converted"
  /\ UNCHANGED <<ids, dungeon, result, allRooms, routeVars, siteVars>>

\* DungeonValidator.validateDungeon applied to one of the dungeons returned
ValidateConverted ==
  /\ pc = "converted"
  /\ converted.kind = "returned"
  /\ \E k \in 1..Len(converted.dungeons) :
       /\ result' = validateDungeon(converted.dungeons[k])
       /\ allRooms' = validateAllRooms(converted.dungeons[k])
       /\ dungeon' = validateArgument(converted.dungeons[k])
  /\ pc' = "imported"
  /\ UNCHANGED <<importVars, routeVars, siteVars>>

NextImport == Convert \/ ValidateConverted

SpecImport == InitImport /\ [][NextImport]_vars

-----------------------------------------------------------------------------
(* POST and PUT of app/api/dungeon/route.ts over the file storage adapter. *)
(* A handler is one step: the requests are handled one after the other.    *)

Unparsable == [unparsable |-> TRUE]
NoId == "none"

Response(status, body) == [status |-> status, body |-> body]

\* the catch block: {success: false, error: error.message}
ErrorResponse(status, message) ==
  Response(status, [success |-> FALSE, error |-> message])

\* faulty variant: the error list is left out of the response
ValidationFailedBare(validation) ==
  Response(400, [success |-> FALSE, error |-> "Validation failed"])

\* {success: false, error: 'Validation failed', errors: validation.errors}
ValidationFailed(validation) ==
  Response(400, [success |-> FALSE, error |-> "Validation failed",
                 errors |-> validation.errors])

\* what a handler leaves behind
Outcome(validation, document, given, file, answer) ==
  [result |-> validation, dungeon |-> document, handed |-> given,
   stored |-> file, response |-> answer]

\* FileStorageAdapter.getAllDungeons: a file that cannot be read or parsed
\* reads as no dungeons
getAllDungeons(file, io) == IF io = "readFails" THEN <<>> ELSE file

\* FileStorageAdapter.createDungeon, then the 201 response; a failed write
\* throws 'Failed to save dungeons'
createDungeon(validation, document, file, io) ==
  IF io = "writeFails"
  THEN Outcome(validation, document, document, file,
               ErrorResponse(400, "Failed to save dungeons"))
  ELSE Outcome(validation, document, document,
               Append(getAllDungeons(file, io), document),
               Response(201, [success |-> TRUE, data |-> document]))

\* dungeons.findIndex(d => d.id === id), 0 for -1
findIndex(dungeons, id) ==
  IF \E i \in 1..Len(dungeons) : dungeons[i].id = id
  THEN CHOOSE i \in 1..Len(dungeons) :
         /\ dungeons[i].id = id
         /\ \A j \in 1..(i - 1) : dungeons[j].id # id
  ELSE 0

\* FileStorageAdapter.updateDungeon, then the 200 response; the catch block
\* answers 404 to 'Dungeon not found' and 400 to any other error
updateDungeon(validation, id, document, file, io) ==
  LET dungeons == getAllDungeons(file, io)
      index == findIndex(dungeons, id)
  IN IF index = 0
     THEN Outcome(validation, document, document, file,
                  ErrorResponse(404, "Dungeon not found"))
     ELSE IF io = "writeFails"
     THEN Outcome(validation, document, document, file,
                  ErrorResponse(400, "Failed to save dungeons"))
     ELSE Outcome(validation, document, document,
                  [dungeons EXCEPT ![index] = document],
                  Response(200, [success |-> TRUE, data |-> document]))

\* if (!validation.valid) return 400 with the errors; a TypeError thrown by
\* the validator reaches the catch block
rejects(validation) == validation.kind = "threw" \/ ~validation.valid

rejected(validation, document, file) ==
  Outcome(validation, document, NotUsed, file,
          IF validation.kind = "threw" THEN ErrorResponse(400, "TypeError")
          ELSE ValidationFailed(validation))

\* export async function POST(request)
POST(req, file, io) ==
  IF req.body = Unparsable
  THEN Outcome(NoResult, NotUsed, NotUsed, file,
               ErrorResponse(400, "SyntaxError"))
  ELSE LET document == With(With(req.body, "createdAt", "now"), "updatedAt", "now")
           validation == validateDungeon(document)
       IN IF rejects(validation) THEN rejected(validation, document, file)
          ELSE createDungeon(validation, document, file, io)

\* export async function PUT(request)
PUT(req, file, io) ==
  IF req.id = NoId
  THEN Outcome(NoResult, NotUsed, NotUsed, file,
               ErrorResponse(400, "Dungeon ID is required"))
  ELSE IF req.body = Unparsable
  THEN Outcome(NoResult, NotUsed, NotUsed, file,
               ErrorResponse(400, "SyntaxError"))
  ELSE LET document == With(With(req.body, "id", req.id), "updatedAt", "now")
           validation == validateDungeon(document)
       IN IF rejects(validation) THEN rejected(validation, document, file)
          ELSE updateDungeon(validation, req.id, document, file, io)

\* the dungeons in the data file before the request
StoredDungeon(id) == [FlatDungeon(1, BaseRooms(2)) EXCEPT !.id = id]
Stores == {<<>>, <<StoredDungeon("d1"), StoredDungeon("d2")>>}

\* a request about to be handled.  The body is one of the candidate
\* documents above (held in dungeon until the handler builds its document),
\* or text that is not JSON.
InitRoute ==
  /\ \/ InitMixed
     \/ InitPartial
     \/ InitStructure /\ ~Has(dungeon, "floors")
     \/ dungeon = Unparsable
  /\ \E method \in {"POST", "PUT"}, id \in {NoId, "d1", "d9"} :
       /\ method = "POST" => id = NoId
       /\ request = [method |-> method, id |-> id, body |-> dungeon]
  /\ stored \in Stores
  /\ pc = "request"
  /\ result = NoResult
  /\ allRooms = <<>>
  /\ handed = NotUsed
  /\ response = NoResult
  /\ ImportIdle
  /\ SiteIdle

Handle(outcome) ==
  /\ result' = outcome.result
  /\ dungeon' = outcome.dungeon
  /\ handed' = outcome.handed
  /\ stored' = outcome.stored
  /\ response' = outcome.response
  /\ pc' = "responded"
  /\ UNCHANGED <<request, allRooms, importVars, siteVars>>

Post ==
  /\ pc = "request"
  /\ request.method = "POST"
  /\ \E io \in {"ok", "readFails", "writeFails"} :
       Handle(POST(request, stored, io))

Put ==
  /\ pc = "request"
  /\ request.method = "PUT"
  /\ \E io \in {"ok", "readFails", "writeFails"} :
       Handle(PUT(request, stored, io))

NextRoute == Post \/ Put

SpecRoute == InitRoute /\ [][NextRoute]_vars

-----------------------------------------------------------------------------
(* Vocabulary of the properties, stated on the document alone *)

RECURSIVE Concat(_)
Concat(seqs) ==
  IF seqs = <<>> THEN <<>> ELSE Head(seqs) \o Concat(Tail(seqs))

\* every property the validator dereferences is present
RoomFormed(room) == Has(room, "coordinates") /\ Has(room, "connections")

WellFormed(d) ==
  /\ Has(d, "size")
  /\ Has(d, "rooms") => \A i \in 1..Len(d.rooms) : RoomFormed(d.rooms[i])
  /\ Has(d, "floors") =>
       \A j \in 1..Len(d.floors) :
         /\ Has(d.floors[j], "rooms")
         /\ \A i \in 1..Len(d.floors[j].rooms) : RoomFormed(d.floors[j].rooms[i])

MultiFloor(d) == "floors" \in DOMAIN d /\ d.floors # <<>>

\* the effective room set: the floors' rooms in floor order, else the flat list
EffectiveRooms(d) ==
  IF MultiFloor(d)
  THEN Concat([j \in 1..Len(d.floors) |-> d.floors[j].rooms])
  ELSE IF "rooms" \in DOMAIN d THEN d.rooms ELSE <<>>

Opposite ==
  [north |-> "south", south |-> "north", east |-> "west", west |-> "east"]

Cell(room) ==
  [x |-> room.coordinates.x, y |-> room.coordinates.y,
   z |-> IF "z" \in DOMAIN room.coordinates THEN room.coordinates.z ELSE 0]

\* the room an id denotes: the last room of the list that carries it
IdUsed(rooms, id) == id \in {rooms[i].id : i \in 1..Len(rooms)}

Denoted(rooms, id) ==
  rooms[CHOOSE i \in 1..Len(rooms) :
          rooms[i].id = id /\ \A j \in (i + 1)..Len(rooms) : rooms[j].id # id]

LeadsBack(target, direction, room) ==
  \E k \in 1..Len(target.connections) :
    target.connections[k] = [direction |-> direction, targetRoomId |-> room.id]

MonstersOfRoom(room) == IF "monsters" \in DOMAIN room THEN room.monsters ELSE <<>>

InRange(monster, level) == level - 2 <= monster.level /\ monster.level <= level + 2

\* the errors of a result, by the check that pushes them
IsDepthError(e) == e.field = <<"size", "depth">>
IsNoRoomsError(e) ==
  e.field = <<"rooms">>
  /\ e.message.text = "Dungeon must have at least one floor with rooms"
IsEntranceError(e) ==
  e.field = <<"rooms">>
  /\ e.message.text = "Dungeon must have at least one entrance room"
IsBossError(e) ==
  e.field = <<"rooms">>
  /\ e.message.text = "Dungeon must have at least one boss room"
IsCoordinateError(e) == Len(e.field) = 3 /\ e.field[3] = "coordinates"
IsConnectionError(e) == Len(e.field) = 3 /\ e.field[3] = "connections"
IsLevelError(e) == Len(e.field) = 5 /\ e.field[5] = "level"

Done == pc = "validated"
Returns == result.kind = "returned"
Errors == result.errors
Count(Is(_)) == Len(SelectSeq(Errors, Is))

-----------------------------------------------------------------------------
(* C1 *)

NoEffectiveRooms(d) == WellFormed(d) /\ Len(EffectiveRooms(d)) = 0

\* C1: every dungeon whose effective room set is empty (flat rooms empty or
\* absent with no floors, or floors non-empty with only empty room lists)
\* gets valid = false and exactly one error, on field rooms.
C1_EmptyRoomSetOneError ==
  (Done /\ NoEffectiveRooms(dungeon)) =>
    /\ Returns
    /\ result.valid = FALSE
    /\ Len(Errors) = 1
    /\ Errors[1].field = <<"rooms">>

\* the flat validator of lib/api.ts has no early return: an empty rooms
\* list gets the entrance and the boss error
LibEmptyRoomsTwoErrors ==
  (pc = "validatedLib" /\ "rooms" \in DOMAIN dungeon /\ dungeon.rooms = <<>>) =>
    (Returns /\ Errors = <<ErrEntrance, ErrBoss>>)

-----------------------------------------------------------------------------
(* C2 *)

HasType(rooms, type) == \E i \in 1..Len(rooms) : rooms[i].type = type

DistinctCells(rooms) ==
  \A i, j \in 1..Len(rooms) : i # j => Cell(rooms[i]) # Cell(rooms[j])

Reciprocated(rooms) ==
  \A i \in 1..Len(rooms) :
    \A k \in 1..Len(rooms[i].connections) :
      LET c == rooms[i].connections[k]
      IN /\ IdUsed(rooms, c.targetRoomId)
         /\ LeadsBack(Denoted(rooms, c.targetRoomId), Opposite[c.direction], rooms[i])

LevelsInRange(d, rooms) ==
  \A i \in 1..Len(rooms) :
    \A k \in 1..Len(MonstersOfRoom(rooms[i])) :
      InRange(MonstersOfRoom(rooms[i])[k], d.level)

Sound(d) ==
  /\ WellFormed(d)
  /\ HasType(EffectiveRooms(d), "entrance")
  /\ HasType(EffectiveRooms(d), "boss")
  /\ DistinctCells(EffectiveRooms(d))
  /\ Reciprocated(EffectiveRooms(d))
  /\ LevelsInRange(d, EffectiveRooms(d))

DepthAgrees(d) ==
  MultiFloor(d) => ("depth" \notin DOMAIN d.size \/ d.size.depth = Len(d.floors))

\* C2 as stated: a dungeon with an entrance and a boss room, distinct
\* coordinates, reciprocated connections and monster levels within level +- 2
\* is valid with an empty error list, whatever its size.depth.
C2_SoundIsValidAnyDepth ==
  (Done /\ Sound(dungeon)) => (Returns /\ result.valid /\ Errors = <<>>)

\* C2 amended: the same, for dungeons whose size.depth, when they have
\* floors, is unset or equals the number of floors.
C2_SoundIsValid ==
  (Done /\ Sound(dungeon) /\ DepthAgrees(dungeon)) =>
    (Returns /\ result.valid /\ Errors = <<>>)

C2_Witness ==
  /\ Done /\ Sound(dungeon) /\ MultiFloor(dungeon)
  /\ "depth" \in DOMAIN dungeon.size
  /\ \E i \in 1..Len(EffectiveRooms(dungeon)) :
       /\ EffectiveRooms(dungeon)[i].connections # <<>>
       /\ MonstersOfRoom(EffectiveRooms(dungeon)[i]) # <<>>
  /\ result.valid

-----------------------------------------------------------------------------
(* C3 *)

\* what a connection error says: its kind, the room it is filed under, the
\* target it names and (for a reciprocity error) the direction it names
ConnectionErrorSays(e) ==
  IF e.message.text = "Connection to non-existent room"
  THEN <<"non-existent room", e.field[2], e.message.target>>
  ELSE <<"missing reciprocal", e.field[2], e.message.target, e.message.direction>>

ConnectionVerdict(rooms, room, c) ==
  IF ~IdUsed(rooms, c.targetRoomId)
  THEN << <<"non-existent room", room.id, c.targetRoomId>> >>
  ELSE IF ~LeadsBack(Denoted(rooms, c.targetRoomId), Opposite[c.direction], room)
       THEN << <<"missing reciprocal", room.id, c.targetRoomId, Opposite[c.direction]>> >>
       ELSE <<>>

ConnectionVerdicts(rooms) ==
  Concat([i \in 1..Len(rooms) |->
            Concat([k \in 1..Len(rooms[i].connections) |->
                      ConnectionVerdict(rooms, rooms[i], rooms[i].connections[k])])])

ConnectionErrorsSaid ==
  LET es == SelectSeq(Errors, IsConnectionError)
  IN [n \in 1..Len(es) |-> ConnectionErrorSays(es[n])]

\* C3: for every room A of the effective set and every connection c of A, in
\* order, validateDungeon emits on room.<A.id>.connections exactly one
\* 'non-existent room' error if no room has c.targetRoomId, else exactly one
\* 'missing reciprocal' error naming the target and the opposite direction
\* if the target has no connection back to A in the opposite direction, else
\* nothing.
C3_ConnectionErrors ==
  Done =>
    /\ WellFormed(dungeon) => Returns
    /\ (Returns /\ EffectiveRooms(dungeon) # <<>>) =>
         ConnectionErrorsSaid = ConnectionVerdicts(EffectiveRooms(dungeon))

\* one one-way connection A -> B (north): one reciprocity error naming B, south
C3_Witness ==
  /\ Done /\ Returns
  /\ Len(EffectiveRooms(dungeon)) = 2
  /\ EffectiveRooms(dungeon)[1].connections =
       <<[direction |-> "north", targetRoomId |-> EffectiveRooms(dungeon)[2].id]>>
  /\ EffectiveRooms(dungeon)[1].id # EffectiveRooms(dungeon)[2].id
  /\ EffectiveRooms(dungeon)[2].connections = <<>>
  /\ ConnectionErrorsSaid =
       << <<"missing reciprocal", EffectiveRooms(dungeon)[1].id,
            EffectiveRooms(dungeon)[2].id, "south">> >>

-----------------------------------------------------------------------------
(* C4 *)

Collides(rooms, i) == \E j \in 1..(i - 1) : Cell(rooms[j]) = Cell(rooms[i])

CollidingRooms(rooms) ==
  Concat([i \in 1..Len(rooms) |->
            IF Collides(rooms, i) THEN << <<rooms[i].id, Cell(rooms[i])>> >> ELSE <<>>])

CoordinateErrorsSaid ==
  LET es == SelectSeq(Errors, IsCoordinateError)
  IN [n \in 1..Len(es) |->
        <<es[n].field[2],
          [x |-> es[n].message.x, y |-> es[n].message.y, z |-> es[n].message.z]>>]

\* C4: validateDungeon emits a coordinate error on room.<id>.coordinates for
\* a room exactly when an earlier room of the effective set has the same
\* (x, y, z), an absent z counting as 0; so the errors number the rooms
\* minus the distinct cells, and there is none iff the cells are distinct.
C4_CoordinateErrors ==
  Done =>
    /\ WellFormed(dungeon) => Returns
    /\ (Returns /\ EffectiveRooms(dungeon) # <<>>) =>
         LET rooms == EffectiveRooms(dungeon)
         IN /\ CoordinateErrorsSaid = CollidingRooms(rooms)
            /\ Count(IsCoordinateError)
                 = Len(rooms) - Cardinality({Cell(rooms[i]) : i \in 1..Len(rooms)})
            /\ (Count(IsCoordinateError) = 0) <=> DistinctCells(rooms)

\* three rooms on two floors in one cell, with z omitted or 0: two errors
C4_Witness ==
  /\ Done /\ Returns /\ MultiFloor(dungeon)
  /\ Len(dungeon.floors) >= 2
  /\ dungeon.floors[1].rooms # <<>>
  /\ Len(EffectiveRooms(dungeon)) = 3
  /\ \A i \in 1..3 : Cell(EffectiveRooms(dungeon)[i]) = [x |-> 0, y |-> 0, z |-> 0]
  /\ \E i \in 1..3 : "z" \notin DOMAIN EffectiveRooms(dungeon)[i].coordinates
  /\ Count(IsCoordinateError) = 2

-----------------------------------------------------------------------------
(* C5 *)

OutOfRangeMonsters(d, rooms) ==
  Concat([i \in 1..Len(rooms) |->
            Concat([k \in 1..Len(MonstersOfRoom(rooms[i])) |->
                      IF InRange(MonstersOfRoom(rooms[i])[k], d.level) THEN <<>>
                      ELSE << <<rooms[i].id, MonstersOfRoom(rooms[i])[k].id>> >>])])

LevelErrorsSaid ==
  LET es == SelectSeq(Errors, IsLevelError)
  IN [n \in 1..Len(es) |-> <<es[n].field[2], es[n].field[4]>>]

\* C5: for every monster of every room of the effective set, in order,
\* validateDungeon emits exactly one error on
\* room.<roomId>.monster.<monsterId>.level iff the monster's level is below
\* dungeon.level - 2 or above dungeon.level + 2 (both bounds inclusive).
C5_MonsterLevelErrors ==
  Done =>
    /\ WellFormed(dungeon) => Returns
    /\ (Returns /\ EffectiveRooms(dungeon) # <<>>) =>
         LevelErrorsSaid = OutOfRangeMonsters(dungeon, EffectiveRooms(dungeon))

\* a monster at dungeon.level + 3 beside one at dungeon.level + 2: one error
C5_Witness ==
  /\ Done /\ Returns
  /\ \E i \in 1..Len(EffectiveRooms(dungeon)) :
       LET ms == MonstersOfRoom(EffectiveRooms(dungeon)[i])
       IN /\ Len(ms) = 2
          /\ ms[1].level = dungeon.level + 3
          /\ ms[2].level = dungeon.level + 2
          /\ LevelErrorsSaid = << <<EffectiveRooms(dungeon)[i].id, ms[1].id>> >>

-----------------------------------------------------------------------------
(* C6 *)

\* the errors each check produces when it starts from an empty list
DepthAlone(d) == IF MultiFloor(d) THEN checkDepth(d, <<>>) ELSE <<>>
EntranceAlone(rooms) == checkEntrance(rooms, <<>>)
BossAlone(rooms) == checkBoss(rooms, <<>>)
CoordinatesAlone(rooms) == checkCoordinates(rooms, 1, {}, <<>>)
ConnectionsAlone(rooms) == checkConnections(rooms, 1, <<>>)
MonstersAlone(d, rooms) == checkMonsters(rooms, 1, d.level, <<>>)

\* C6: for a dungeon with a non-empty effective room set the error list is
\* the concatenation, in the order depth, entrance, boss, coordinates,
\* connections, monster levels, of the errors each check produces on its
\* own, and valid is true iff the list is empty.
C6_FullScan ==
  Done =>
    /\ WellFormed(dungeon) => Returns
    /\ (Returns /\ EffectiveRooms(dungeon) # <<>>) =>
         LET rooms == EffectiveRooms(dungeon)
         IN /\ Errors = DepthAlone(dungeon) \o EntranceAlone(rooms) \o BossAlone(rooms)
                        \o CoordinatesAlone(rooms) \o ConnectionsAlone(rooms)
                        \o MonstersAlone(dungeon, rooms)
            /\ result.valid <=> (Errors = <<>>)

\* every check fails in one document, and every one of them reports
C6_Witness ==
  /\ Done /\ Returns
  /\ Count(IsDepthError) = 1
  /\ Count(IsEntranceError) = 1
  /\ Count(IsBossError) = 1
  /\ Count(IsCoordinateError) >= 1
  /\ Count(IsConnectionError) >= 1
  /\ Count(IsLevelError) >= 1
  /\ ~result.valid

-----------------------------------------------------------------------------
(* C7 *)

\* C7: validateDungeon never throws and always returns a {valid, errors}
\* result, also for partially formed documents.
C7_NeverThrows == Done => Returns

-----------------------------------------------------------------------------
(* C8 *)

\* C8: with a non-empty effective room set, the entrance error is emitted
\* (once) iff no room of the set has type entrance, and the boss error
\* (once) iff none has type boss, the rooms of every floor counting.
C8_EntranceAndBoss ==
  Done =>
    /\ WellFormed(dungeon) => Returns
    /\ (Returns /\ EffectiveRooms(dungeon) # <<>>) =>
         LET rooms == EffectiveRooms(dungeon)
         IN /\ Count(IsEntranceError) = IF HasType(rooms, "entrance") THEN 0 ELSE 1
            /\ Count(IsBossError) = IF HasType(rooms, "boss") THEN 0 ELSE 1
            /\ Count(IsNoRoomsError) = 0

\* the entrance on one floor and the boss on another: neither error
C8_Witness ==
  /\ Done /\ Returns /\ MultiFloor(dungeon)
  /\ Len(dungeon.floors) = 2
  /\ HasType(dungeon.floors[1].rooms, "entrance")
  /\ ~HasType(dungeon.floors[1].rooms, "boss")
  /\ HasType(dungeon.floors[2].rooms, "boss")
  /\ ~HasType(dungeon.floors[2].rooms, "entrance")
  /\ Count(IsEntranceError) = 0
  /\ Count(IsBossError) = 0

-----------------------------------------------------------------------------
(* C9 *)

DepthDiffers(d) == "depth" \in DOMAIN d.size /\ d.size.depth # Len(d.floors)

\* C9: a multi-floor dungeon gets exactly one error on size.depth iff
\* size.depth is set and differs from the number of floors (0 included),
\* the remaining checks still run, and a flat dungeon gets no depth error.
C9_DepthError ==
  (Done /\ WellFormed(dungeon)) =>
    /\ Returns
    /\ Count(IsDepthError) =
         IF MultiFloor(dungeon) /\ DepthDiffers(dungeon) THEN 1 ELSE 0
    /\ (EffectiveRooms(dungeon) # <<>>) =>
         Count(IsEntranceError) =
           IF HasType(EffectiveRooms(dungeon), "entrance") THEN 0 ELSE 1

-----------------------------------------------------------------------------
(* C10 *)

\* C10: the room set validateDungeon checks is getAllRooms(dungeon): the
\* floors' rooms in floor order when floors is present and non-empty, the
\* flat rooms list being ignored, and the flat rooms list otherwise.
C10_RoomSetIsGetAllRooms ==
  Done =>
    /\ WellFormed(dungeon) => Returns
    /\ Returns =>
         /\ allRooms = getAllRooms(dungeon)
         /\ getAllRooms(dungeon) = EffectiveRooms(dungeon)

\* floors and a different, non-empty flat list: the floors' rooms are checked
C10_Witness ==
  /\ Done /\ Returns /\ MultiFloor(dungeon)
  /\ "rooms" \in DOMAIN dungeon /\ dungeon.rooms # <<>>
  /\ Len(dungeon.floors) = 2
  /\ dungeon.floors[1].rooms # <<>> /\ dungeon.floors[2].rooms # <<>>
  /\ dungeon.rooms # EffectiveRooms(dungeon)
  /\ allRooms = dungeon.floors[1].rooms \o dungeon.floors[2].rooms

-----------------------------------------------------------------------------
(* The validator and the importer side by side *)

InitFrame == Init \/ InitImport

NextFrame == Validate \/ Convert \/ ValidateConverted

SpecFrame == InitFrame /\ [][NextFrame]_vars

-----------------------------------------------------------------------------
(* Vocabulary of the importer's properties, stated on the legacy document *)

Converted == pc = "converted"
ConvertReturns == converted.kind = "returned"
Out == converted.dungeons

IsList(obj, f) == Has(obj, f) /\ Has(obj[f], "array")
IsObject(v) == ~Has(v, "jsNull") /\ ~Has(v, "jsUndefined")
                 /\ ~Has(v, "jsNumber") /\ ~Has(v, "array")

\* the records of a document whose dungeons property is a list
Records(doc) == doc.dungeons.array

\* the legacy rooms of a record: those of its rooms list, none without one
LegacyRooms(record) ==
  IF IsObject(record) /\ IsList(record, "rooms") THEN record.rooms.array ELSE <<>>

\* a document made of objects down to its rooms and monsters
Regular(doc) ==
  /\ IsObject(doc) /\ IsList(doc, "dungeons")
  /\ \A k \in 1..Len(Records(doc)) :
       /\ IsObject(Records(doc)[k])
       /\ \A i \in 1..Len(LegacyRooms(Records(doc)[k])) :
            LET room == LegacyRooms(Records(doc)[k])[i]
            IN /\ IsObject(room)
               /\ IsList(room, "monsters") =>
                    \A m \in 1..Len(room.monsters.array) :
                      IsObject(room.monsters.array[m])
               /\ (Has(room, "storyEvent") /\ Has(room.storyEvent, "choices")) =>
                    Has(room.storyEvent.choices, "array")

\* generateId gave a new value at each call
Fresh == \A m, n \in 1..Len(ids) : m # n => ids[m] # ids[n]

\* the legacy level of a record, 1 when it has none
LegacyLevel(record) == IF Has(record, "level") THEN record.level ELSE 1

\* the cell of a legacy room, a missing x or y being 0
LegacyCell(room) ==
  [x |-> IF Has(room, "x") THEN room.x ELSE 0,
   y |-> IF Has(room, "y") THEN room.y ELSE 0]

\* the direction entries of a legacy room
Entries(room) ==
  IF IsList(room, "connections") THEN room.connections.array ELSE <<>>

LegacyMonsters(room) ==
  IF IsList(room, "monsters") THEN room.monsters.array ELSE <<>>

Cardinal == {"north", "south", "east", "west"}

\* one grid step from a cell
Moved(cell, d) ==
  [x |-> cell.x + (IF d = "east" THEN 1 ELSE IF d = "west" THEN 0 - 1 ELSE 0),
   y |-> cell.y + (IF d = "south" THEN 1 ELSE IF d = "north" THEN 0 - 1 ELSE 0)]

Occupied(legacyRooms, cell) ==
  \E j \in 1..Len(legacyRooms) : LegacyCell(legacyRooms[j]) = cell

Range(s) == {s[n] : n \in 1..Len(s)}

-----------------------------------------------------------------------------
(* C11 *)

-----------------------------------------------------------------------------
(* C12 *)

\* the shapes C12 names: null or a non-object, no dungeons property, a
\* dungeons property that is no list, a dungeons list with a null entry
Unrecognized(doc) ==
  \/ ~IsObject(doc)
  \/ ~Has(doc, "dungeons")
  \/ ~IsList(doc, "dungeons")
  \/ \E k \in 1..Len(Records(doc)) : Records(doc)[k] = JsNull

\* C12: convertLegacyFormat does not throw on a document of an unrecognized
\* shape and returns the empty list for it.
C12_UnrecognizedYieldsEmpty ==
  (Converted /\ Unrecognized(legacy)) =>
    /\ ConvertReturns
    /\ Out = <<>>

-----------------------------------------------------------------------------
(* C13 *)

\* C13: convertLegacyFormat returns one dungeon per record of the dungeons
\* list, in input order, each of difficulty Medium and of the legacy level
\* (1 when the record has none), with one room per legacy room, in the same
\* order, at the same (x, y), a missing x or y being 0.
C13_ShapePreserved ==
  (Converted /\ Regular(legacy)) =>
    /\ ConvertReturns
    /\ Len(Out) = Len(Records(legacy))
    /\ \A k \in 1..Len(Out) :
         LET record == Records(legacy)[k]
         IN /\ Out[k].difficulty = "Medium"
            /\ Out[k].level = LegacyLevel(record)
            /\ Len(Out[k].rooms) = Len(LegacyRooms(record))
            /\ \A i \in 1..Len(Out[k].rooms) :
                 /\ Out[k].rooms[i].coordinates.x = LegacyCell(LegacyRooms(record)[i]).x
                 /\ Out[k].rooms[i].coordinates.y = LegacyCell(LegacyRooms(record)[i]).y

-----------------------------------------------------------------------------
(* C14 *)

\* C14: when generateId returns a new value at each call, the ids of the
\* rooms returned are values generateId returned, no two rooms of the whole
\* result share one (nor when legacy rooms share a legacy id), and every
\* connection targets the id of a room of the dungeon that holds it.
C14_FreshRoomIds ==
  (Converted /\ ConvertReturns /\ Fresh) =>
    /\ \A k \in 1..Len(Out) : \A i \in 1..Len(Out[k].rooms) :
         /\ Out[k].rooms[i].id \in Range(ids)
         /\ \A l \in 1..Len(Out) : \A j \in 1..Len(Out[l].rooms) :
              (<<k, i>> # <<l, j>>) => Out[k].rooms[i].id # Out[l].rooms[j].id
         /\ \A c \in 1..Len(Out[k].rooms[i].connections) :
              \E j \in 1..Len(Out[k].rooms) :
                Out[k].rooms[j].id = Out[k].rooms[i].connections[c].targetRoomId

\* two records, one of them with connected rooms that carry the same legacy id
C14_Witness ==
  /\ Converted /\ ConvertReturns /\ Fresh /\ Regular(legacy)
  /\ Len(Out) > 1
  /\ \E k \in 1..Len(Out) :
       \E i, j \in 1..Len(LegacyRooms(Records(legacy)[k])) :
         /\ i # j
         /\ Has(LegacyRooms(Records(legacy)[k])[i], "id")
         /\ Has(LegacyRooms(Records(legacy)[k])[j], "id")
         /\ LegacyRooms(Records(legacy)[k])[i].id = LegacyRooms(Records(legacy)[k])[j].id
         /\ \E c \in 1..Len(Out[k].rooms[i].connections) :
              Out[k].rooms[i].connections[c].targetRoomId = Out[k].rooms[j].id

-----------------------------------------------------------------------------
(* C15 *)

\* C15: for each of the four directions d, the converted room has a
\* connection of direction d exactly when d is listed on the legacy room and
\* some room of the record, listed before or after it, lies one grid step
\* in d from it, and every such connection targets a room in that cell.
C15_ConnectionTargets ==
  (Converted /\ Regular(legacy) /\ Fresh) =>
    \A k \in 1..Len(Out) :
      LET legacyRooms == LegacyRooms(Records(legacy)[k])
      IN \A i \in 1..Len(legacyRooms) :
           LET here == LegacyCell(legacyRooms[i])
               made == Out[k].rooms[i].connections
           IN \A d \in Cardinal :
                /\ (\E c \in 1..Len(made) : made[c].direction = d) <=>
                     /\ d \in Range(Entries(legacyRooms[i]))
                     /\ Occupied(legacyRooms, Moved(here, d))
                /\ \A c \in 1..Len(made) :
                     made[c].direction = d =>
                       \E j \in 1..Len(legacyRooms) :
                         /\ Out[k].rooms[j].id = made[c].targetRoomId
                         /\ LegacyCell(legacyRooms[j]) = Moved(here, d)

\* a room connected north to a room listed after it, which is connected
\* south to the first
C15_Witness ==
  /\ Converted /\ Regular(legacy) /\ Fresh
  /\ \E k \in 1..Len(Out) :
       \E i, j \in 1..Len(Out[k].rooms) :
         /\ i < j
         /\ \E c \in 1..Len(Out[k].rooms[i].connections) :
              /\ Out[k].rooms[i].connections[c].targetRoomId = Out[k].rooms[j].id
              /\ Out[k].rooms[i].connections[c].direction = "north"
         /\ \E c \in 1..Len(Out[k].rooms[j].connections) :
              /\ Out[k].rooms[j].connections[c].targetRoomId = Out[k].rooms[i].id
              /\ Out[k].rooms[j].connections[c].direction = "south"

-----------------------------------------------------------------------------
(* C16 *)

\* the positions of the direction list of room i whose entry is one of the
\* four directions and has a room one step away
ResolvedEntries(legacyRooms, i) ==
  {p \in 1..Len(Entries(legacyRooms[i])) :
     /\ Entries(legacyRooms[i])[p] \in Cardinal
     /\ Occupied(legacyRooms, Moved(LegacyCell(legacyRooms[i]),
                                    Entries(legacyRooms[i])[p]))}

Addressed(here, d) == IF d \in Cardinal THEN Moved(here, d) ELSE here

\* the occupied cells the direction list of room i addresses
ResolvedCells(legacyRooms, i) ==
  {cell \in {Addressed(LegacyCell(legacyRooms[i]), Entries(legacyRooms[i])[p]) :
               p \in 1..Len(Entries(legacyRooms[i]))} :
     Occupied(legacyRooms, cell)}

-----------------------------------------------------------------------------
(* C17 *)

\* a record as C17 describes it
WellFormedLegacy(record) ==
  LET legacyRooms == LegacyRooms(record)
  IN /\ IsObject(record) /\ IsList(record, "rooms")
     /\ \A i, j \in 1..Len(legacyRooms) :
          i # j => LegacyCell(legacyRooms[i]) # LegacyCell(legacyRooms[j])
     /\ \E i \in 1..Len(legacyRooms) :
          Has(legacyRooms[i], "type") /\ legacyRooms[i].type = "entrance"
     /\ \E i \in 1..Len(legacyRooms) :
          Has(legacyRooms[i], "type") /\ legacyRooms[i].type = "boss"
     /\ \A i \in 1..Len(legacyRooms) :
          /\ Range(Entries(legacyRooms[i])) \subseteq Cardinal
          /\ \A j \in 1..Len(legacyRooms) : \A d \in Cardinal :
               LegacyCell(legacyRooms[j]) = Moved(LegacyCell(legacyRooms[i]), d) =>
                 (d \in Range(Entries(legacyRooms[i])) <=>
                    Opposite[d] \in Range(Entries(legacyRooms[j])))
          /\ \A m \in 1..Len(LegacyMonsters(legacyRooms[i])) :
               LET monster == LegacyMonsters(legacyRooms[i])[m]
               IN Has(monster, "level") =>
                    /\ monster.level >= LegacyLevel(record) - 2
                    /\ monster.level <= LegacyLevel(record) + 2

\* C17: the dungeon convertLegacyFormat returns for a well-formed record is
\* found valid by validateDungeon.
C17_ImportThenValidate ==
  (pc = "imported" /\ Regular(legacy) /\ Fresh) =>
    \A k \in 1..Len(Out) :
      (dungeon = Out[k] /\ WellFormedLegacy(Records(legacy)[k])) =>
        (result.kind = "returned" /\ result.valid)

-----------------------------------------------------------------------------
(* C18 *)

\* C18: every number present in a legacy monster, 0 included, is the number
\* of the converted monster (health from maxHealth, attack from damage,
\* defense from defense, speed from agility, level from level), and a
\* monster without a level has the level of its dungeon.
C18_MonsterNumbers ==
  (Converted /\ Regular(legacy)) =>
    \A k \in 1..Len(Out) :
      \A i \in 1..Len(Out[k].rooms) :
        LET legacyMonsters == LegacyMonsters(LegacyRooms(Records(legacy)[k])[i])
        IN \A m \in 1..Len(legacyMonsters) :
             LET old == legacyMonsters[m]
                 new == Out[k].rooms[i].monsters[m]
             IN /\ Has(old, "maxHealth") => new.stats.health = old.maxHealth
                /\ Has(old, "damage") => new.stats.attack = old.damage
                /\ Has(old, "defense") => new.stats.defense = old.defense
                /\ Has(old, "agility") => new.stats.speed = old.agility
                /\ new.level = IF Has(old, "level") THEN old.level
                               ELSE Out[k].level

-----------------------------------------------------------------------------
(* C19 *)

\* a dungeon that breaks a documented limit: a monster of health 0 or less
\* or of negative attack, defense or speed, a width, height or depth below
\* 1, a level below 1
BreaksLimit(d) ==
  \/ \E i \in 1..Len(EffectiveRooms(d)) :
       \E m \in 1..Len(MonstersOfRoom(EffectiveRooms(d)[i])) :
         LET stats == MonstersOfRoom(EffectiveRooms(d)[i])[m].stats
         IN \/ stats.health <= 0
            \/ stats.attack < 0
            \/ stats.defense < 0
            \/ stats.speed < 0
  \/ d.size.width < 1
  \/ d.size.height < 1
  \/ Has(d.size, "depth") /\ d.size.depth < 1
  \/ d.level < 1

\* C19: validateDungeon rejects every dungeon that breaks a documented limit.
C19_LimitsEnforced ==
  (Done /\ WellFormed(dungeon) /\ BreaksLimit(dungeon)) =>
    (Returns /\ ~result.valid)

-----------------------------------------------------------------------------
(* C20 *)

\* C20: when the validator rejects the document of a POST or PUT request the
\* response has status 400 and carries the error list validateDungeon gives
\* for the body, nothing is handed to the storage adapter and the stored
\* dungeons are what they were; a document found valid is handed to the
\* storage adapter.
C20_RejectedIsNotStored ==
  [][(pc = "request" /\ pc' = "responded" /\ result'.kind = "returned") =>
       /\ result' = validateDungeon(request.body)
       /\ ~result'.valid =>
            /\ response'.status = 400
            /\ Has(response'.body, "errors")
            /\ response'.body.errors = validateDungeon(request.body).errors
            /\ handed' = NotUsed
            /\ stored' = stored
       /\ result'.valid =>
            /\ handed' = dungeon'
            /\ \A f \in DOMAIN request.body \ {"id", "createdAt", "updatedAt"} :
                 handed'[f] = request.body[f]]_vars

\* a PUT of a document with several errors answered 400 with
\* those errors while two dungeons are stored
C20_Witness ==
  /\ pc = "responded"
  /\ result.kind = "returned" /\ Len(result.errors) > 1
  /\ response.status = 400 /\ response.body.errors = result.errors
  /\ request.method = "PUT" /\ request.id = "d1"
  /\ Len(stored) = 2 /\ stored[1] = StoredDungeon("d1")
  /\ handed = NotUsed

-----------------------------------------------------------------------------
(* C29 *)

\* C29: every connection of every converted room has one of the four
\* directions and targets a room other than the room that holds it, whatever
\* strings the legacy direction list holds.
C29_ConnectionsAreSteps ==
  (Converted /\ ConvertReturns /\ Regular(legacy) /\ Fresh) =>
    \A k \in 1..Len(Out) :
      \A i \in 1..Len(Out[k].rooms) :
        \A c \in 1..Len(Out[k].rooms[i].connections) :
          /\ Out[k].rooms[i].connections[c].direction \in Cardinal
          /\ Out[k].rooms[i].connections[c].targetRoomId # Out[k].rooms[i].id

-----------------------------------------------------------------------------
(* DungeonHelpers.addConnection.  The two rooms are objects of the dungeon   *)
(* being built: positions in its room list, so that a room passed as both   *)
(* source and target is one object.                                         *)

connectsTo(room, id) ==
  \E k \in 1..Len(room.connections) : room.connections[k].targetRoomId = id

Connection(direction, id) ==
  [direction |-> direction, targetRoomId |-> id, locked |-> FALSE,
   hidden |-> FALSE]

addConnection(rooms, s, t, direction) ==
  LET oppositeDirection == getOppositeDirection(direction)
      pushed == IF connectsTo(rooms[s], rooms[t].id) THEN rooms
                ELSE [rooms EXCEPT ![s].connections =
                        Append(@, Connection(direction, rooms[t].id))]
  IN IF connectsTo(pushed[t], pushed[s].id) THEN pushed
     ELSE [pushed EXCEPT ![t].connections =
             Append(@, Connection(oppositeDirection, pushed[s].id))]

\* an entrance and a boss room as createRoom makes them, not connected yet
InitBuild ==
  /\ dungeon = FlatDungeon(1, BaseRooms(2))
  /\ pc = "input"
  /\ result = NoResult
  /\ allRooms = <<>>
  /\ ImportIdle
  /\ RouteIdle
  /\ SiteIdle

AddConnection ==
  /\ pc = "input"
  /\ \E s, t \in 1..Len(dungeon.rooms), direction \in Directions :
       dungeon' = [dungeon EXCEPT !.rooms = addConnection(@, s, t, direction)]
  /\ UNCHANGED <<pc, result, allRooms, importVars, routeVars, siteVars>>

NextBuild == AddConnection \/ Validate

SpecBuild == InitBuild /\ [][NextBuild]_vars

-----------------------------------------------------------------------------
(* C25 *)

HasReverse(rooms, i, c) ==
  \E j \in 1..Len(rooms) :
    /\ rooms[j].id = c.targetRoomId
    /\ \E k \in 1..Len(rooms[j].connections) :
         /\ rooms[j].connections[k].targetRoomId = rooms[i].id
         /\ rooms[j].connections[k].direction = Opposite[c.direction]

\* C25: after any sequence of addConnection calls on rooms that started
\* unconnected, every connection of every room has its reverse connection
\* in the opposite direction, and validateDungeon reports no connection
\* error.
C25_ReciprocalPairs ==
  /\ \A i \in 1..Len(dungeon.rooms) :
       \A k \in 1..Len(dungeon.rooms[i].connections) :
         HasReverse(dungeon.rooms, i, dungeon.rooms[i].connections[k])
  /\ (Done /\ Returns) =>
       \A n \in 1..Len(Errors) : ~IsConnectionError(Errors[n])

-----------------------------------------------------------------------------
(* POST, PUT and DELETE of app/api/endpoints/route.ts.  A path is the list   *)
(* of the pieces its text is made of: "/api/custom/a" is                    *)
(* <<"/api/", "custom/", "a">>, and the empty string is <<>>.               *)

MaxEndpoints == 2

startsWith(text, prefix) ==
  Len(text) >= Len(prefix) /\ SubSeq(text, 1, Len(prefix)) = prefix

\* loadEndpoints: a file that cannot be read or parsed reads as no endpoints
loadEndpoints(file, io) == IF io = "readFails" THEN <<>> ELSE file

\* !endpoint.f for a property that holds a string, and for the path
absent(obj, f) == ~Has(obj, f) \/ obj[f] = ""
noPath(obj) == ~Has(obj, "path") \/ obj.path = <<>>

Served(file, answer) == [endpoints |-> file, response |-> answer]

\* faulty variant: the configurations are not searched for the new path
POSTEndpointAnyPath(req, file, io) ==
  IF req.body = Unparsable
  THEN Served(file, ErrorResponse(400, "Failed to create endpoint configuration"))
  ELSE LET endpoint == With(With(req.body, "createdAt", "now"), "updatedAt", "now")
           loaded == loadEndpoints(file, io)
       IN IF absent(endpoint, "id") \/ absent(endpoint, "name")
             \/ noPath(endpoint) \/ absent(endpoint, "dungeonId")
          THEN Served(file, ErrorResponse(400, "Missing required fields"))
          ELSE IF ~startsWith(endpoint.path, <<"/api/">>)
          THEN Served(file, ErrorResponse(400, "Path must start with /api/"))
          ELSE IF \E n \in 1..Len(loaded) : loaded[n].id = endpoint.id
          THEN Served(file, ErrorResponse(400, "Endpoint with this ID already exists"))
          ELSE IF io = "writeFails"
          THEN Served(file, ErrorResponse(400, "Failed to create endpoint configuration"))
          ELSE Served(Append(loaded, endpoint),
                      Response(201, [success |-> TRUE, data |-> endpoint]))

\* export async function POST(request) of the endpoints route
POSTEndpoint(req, file, io) ==
  IF req.body = Unparsable
  THEN Served(file, ErrorResponse(400, "Failed to create endpoint configuration"))
  ELSE LET endpoint == With(With(req.body, "createdAt", "now"), "updatedAt", "now")
           loaded == loadEndpoints(file, io)
       IN IF absent(endpoint, "id") \/ absent(endpoint, "name")
             \/ noPath(endpoint) \/ absent(endpoint, "dungeonId")
          THEN Served(file, ErrorResponse(400, "Missing required fields"))
          ELSE IF ~startsWith(endpoint.path, <<"/api/">>)
          THEN Served(file, ErrorResponse(400, "Path must start with /api/"))
          ELSE IF \E n \in 1..Len(loaded) : loaded[n].id = endpoint.id
          THEN Served(file, ErrorResponse(400, "Endpoint with this ID already exists"))
          ELSE IF \E n \in 1..Len(loaded) : loaded[n].path = endpoint.path
          THEN Served(file, ErrorResponse(400, "Endpoint with this path already exists"))
          ELSE IF io = "writeFails"
          THEN Served(file, ErrorResponse(400, "Failed to create endpoint configuration"))
          ELSE Served(Append(loaded, endpoint),
                      Response(201, [success |-> TRUE, data |-> endpoint]))

\* export async function PUT(request) of the endpoints route
PUTEndpoint(req, file, io) ==
  IF req.id = NoId
  THEN Served(file, ErrorResponse(400, "Endpoint ID is required"))
  ELSE IF req.body = Unparsable
  THEN Served(file, ErrorResponse(400, "Failed to update endpoint configuration"))
  ELSE LET updatedEndpoint == With(With(req.body, "id", req.id), "updatedAt", "now")
           loaded == loadEndpoints(file, io)
           index == findIndex(loaded, req.id)
       IN IF absent(updatedEndpoint, "name") \/ noPath(updatedEndpoint)
             \/ absent(updatedEndpoint, "dungeonId")
          THEN Served(file, ErrorResponse(400, "Missing required fields"))
          ELSE IF ~startsWith(updatedEndpoint.path, <<"/api/">>)
          THEN Served(file, ErrorResponse(400, "Path must start with /api/"))
          ELSE IF index = 0
          THEN Served(file, ErrorResponse(404, "Endpoint configuration not found"))
          ELSE IF \E n \in 1..Len(loaded) :
                    loaded[n].path = updatedEndpoint.path /\ loaded[n].id # req.id
          THEN Served(file, ErrorResponse(400, "Another endpoint with this path already exists"))
          ELSE IF io = "writeFails"
          THEN Served(file, ErrorResponse(400, "Failed to update endpoint configuration"))
          ELSE Served([loaded EXCEPT ![index] = updatedEndpoint],
                      Response(200, [success |-> TRUE, data |-> updatedEndpoint]))

\* export async function DELETE(request) of the endpoints route
DELETEEndpoint(req, file, io) ==
  IF req.id = NoId
  THEN Served(file, ErrorResponse(400, "Endpoint ID is required"))
  ELSE LET loaded == loadEndpoints(file, io)
           filtered == SelectSeq(loaded, LAMBDA e : e.id # req.id)
       IN IF Len(filtered) = Len(loaded)
          THEN Served(file, ErrorResponse(404, "Endpoint configuration not found"))
          ELSE IF io = "writeFails"
          THEN Served(file, ErrorResponse(400, "Failed to delete endpoint configuration"))
          ELSE Served(filtered, Response(200, [success |-> TRUE, data |-> [id |-> req.id]]))

\* the request bodies explored: whole configurations, configurations with
\* a required property missing or empty or with a path outside /api/, and
\* text that is not JSON.  PUT replaces the id of the body by the id of the
\* query, so one id is enough in its bodies.
EndpointIds == {"e" \o ToString(n) : n \in 1..MaxEndpoints}
EndpointPaths ==
  {<<"/api/", "custom/", "a">>, <<"/api/", "custom/", "b">>,
   <<"/api/", "other">>}

EndpointConfig(id, path) ==
  [id |-> id, name |-> "endpoint", path |-> path, dungeonId |-> "d1",
   enabled |-> TRUE]

EndpointBodies(known) ==
  {EndpointConfig(id, path) : id \in known, path \in EndpointPaths}
  \cup {Without(EndpointConfig("e1", <<"/api/", "custom/", "a">>), "name"),
        EndpointConfig("e1", <<>>), EndpointConfig("e1", <<"/", "custom/", "a">>),
        Unparsable}

IoOutcomes == {"ok", "readFails", "writeFails"}

\* an empty configuration file and no request handled yet
InitEndpoints ==
  /\ endpoints = <<>>
  /\ request = NotUsed
  /\ response = NoResult
  /\ pc = "serving"
  /\ stored = <<>>
  /\ handed = NotUsed
  /\ mode = "file"
  /\ database = NotUsed
  /\ inflight = <<>>
  /\ editor = NotUsed
  /\ ValidatorIdle
  /\ ImportIdle

ServeEndpoints(req, served) ==
  /\ request' = req
  /\ endpoints' = served.endpoints
  /\ response' = served.response
  /\ UNCHANGED <<validatorVars, importVars, stored, handed, mode, database,
                 inflight, editor>>

PostEndpoint ==
  /\ pc = "serving"
  /\ \E body \in EndpointBodies(EndpointIds), io \in IoOutcomes :
       LET req == [method |-> "POST", id |-> NoId, body |-> body, io |-> io]
       IN ServeEndpoints(req, POSTEndpoint(req, endpoints, io))

PutEndpoint ==
  /\ pc = "serving"
  /\ \E body \in EndpointBodies({"e1"}), id \in EndpointIds \cup {NoId},
        io \in IoOutcomes :
       LET req == [method |-> "PUT", id |-> id, body |-> body, io |-> io]
       IN ServeEndpoints(req, PUTEndpoint(req, endpoints, io))

DeleteEndpoint ==
  /\ pc = "serving"
  /\ \E id \in EndpointIds \cup {NoId}, io \in IoOutcomes :
       LET req == [method |-> "DELETE", id |-> id, body |-> NotUsed, io |-> io]
       IN ServeEndpoints(req, DELETEEndpoint(req, endpoints, io))

NextEndpoints == PostEndpoint \/ PutEndpoint \/ DeleteEndpoint

SpecEndpoints == InitEndpoints /\ [][NextEndpoints]_vars

-----------------------------------------------------------------------------
(* C27 *)

UniqueEndpoints(file) ==
  \A m, n \in 1..Len(file) :
    m # n => file[m].id # file[n].id /\ file[m].path # file[n].path

\* the configuration list the handler would write, had it no duplicate
\* checks, holds two configurations with one id or one path
WouldRepeat(req, loaded) ==
  /\ req.body # Unparsable
  /\ \/ /\ req.method = "POST"
        /\ \E n \in 1..Len(loaded) :
             \/ Has(req.body, "id") /\ loaded[n].id = req.body.id
             \/ Has(req.body, "path") /\ loaded[n].path = req.body.path
     \/ /\ req.method = "PUT"
        /\ \E n \in 1..Len(loaded) : loaded[n].id = req.id
        /\ \E n \in 1..Len(loaded) :
             /\ Has(req.body, "path") /\ loaded[n].path = req.body.path
             /\ loaded[n].id # req.id

\* C27: every request on /api/endpoints leaves a configuration file in which
\* no two configurations share an id and no two share a path, and a POST or
\* PUT whose configuration would repeat an id or a path of the configurations
\* the handler loaded is answered 400 and leaves the file unchanged.
C27_UniqueIdsAndPaths ==
  [][/\ UniqueEndpoints(endpoints')
     /\ WouldRepeat(request', loadEndpoints(endpoints, request'.io)) =>
          response'.status = 400 /\ endpoints' = endpoints]_vars

\* a PUT that would give the first stored configuration the path of the
\* second, answered 400
C27_Witness ==
  /\ Len(endpoints) = 2
  /\ response.status = 400
  /\ request.io = "ok"
  /\ request.body # Unparsable /\ Has(request.body, "path")
  /\ request.method = "PUT"
  /\ endpoints[1].id = request.id
  /\ endpoints[2].path = request.body.path

-----------------------------------------------------------------------------
(* C24 *)

UnderCustom(path) == startsWith(path, <<"/api/", "custom/">>)

\* C24: a POST or PUT on /api/endpoints whose path does not start with
\* /api/custom/ is answered 400 and leaves the configuration file unchanged,
\* and every stored configuration has a path that starts with /api/custom/.
C24_PathsUnderCustom ==
  [][/\ (/\ request'.method \in {"POST", "PUT"}
         /\ request'.body # Unparsable
         /\ Has(request'.body, "path")
         /\ ~UnderCustom(request'.body.path)) =>
          response'.status = 400 /\ endpoints' = endpoints
     /\ \A n \in 1..Len(endpoints') : UnderCustom(endpoints'[n].path)]_vars

-----------------------------------------------------------------------------
(* SupabaseDatabase of lib/supabase.ts over the tables dungeons,             *)
(* dungeon_floors and rooms.  A table is the set of its rows.  The id        *)
(* column of a table is its primary key, and deleting a dungeon row deletes  *)
(* the floor and room rows that refer to it.  The id the database gives a    *)
(* floor row is kept as the pair of its dungeon and its floor number.        *)
(* The documents explored carry no monsters, puzzle, story, lore, secrets    *)
(* or connections, for which the insert helpers return at once.              *)

EmptyDatabase == [dungeons |-> {}, floors |-> {}, rooms |-> {}]

DbResult(db, error, created) ==
  [database |-> db, error |-> error, dungeon |-> created]

dungeonRow(d) ==
  [id |-> d.id, name |-> d.name, difficulty |-> d.difficulty,
   level |-> d.level, size_width |-> d.size.width,
   size_height |-> d.size.height,
   size_depth |-> IF Has(d.size, "depth") /\ d.size.depth # 0
                  THEN JsNumber(d.size.depth) ELSE JsNull,
   description |-> d.description, created_at |-> "now", updated_at |-> "now"]

floorId(dungeonId, floorNumber) == [dungeon |-> dungeonId, number |-> floorNumber]

floorRows(d) ==
  {[id |-> floorId(d.id, d.floors[k].floorNumber), dungeon_id |-> d.id,
    floor_number |-> d.floors[k].floorNumber, name |-> d.floors[k].name,
    description |-> d.floors[k].description] : k \in 1..Len(d.floors)}

roomRows(dungeonId, rooms, floor) ==
  {[id |-> rooms[k].id, dungeon_id |-> dungeonId, floor_id |-> floor,
    type |-> rooms[k].type, coord_x |-> rooms[k].coordinates.x,
    coord_y |-> rooms[k].coordinates.y,
    coord_z |-> zOrZero(rooms[k].coordinates),
    description |-> rooms[k].description,
    visited |-> Has(rooms[k], "visited") /\ rooms[k].visited,
    cleared |-> Has(rooms[k], "cleared") /\ rooms[k].cleared] :
     k \in 1..Len(rooms)}

\* an insert fails as a whole when one of its rows repeats a primary key
repeatsKey(table, rows) ==
  \/ \E row \in rows : \E old \in table : old.id = row.id
  \/ \E one, other \in rows : one # other /\ one.id = other.id

\* SupabaseDatabase.insertRoomsForDungeon
insertRoomsForDungeon(db, dungeonId, rooms, floor, fault) ==
  IF Len(rooms) = 0 THEN DbResult(db, "", JsNull)
  ELSE IF fault = "roomsFail"
          \/ repeatsKey(db.rooms, roomRows(dungeonId, rooms, floor))
          \/ Cardinality(roomRows(dungeonId, rooms, floor)) < Len(rooms)
  THEN DbResult(db, "Failed to insert rooms", JsNull)
  ELSE DbResult([db EXCEPT !.rooms = @ \cup roomRows(dungeonId, rooms, floor)],
             "", JsNull)

\* for (const floor of dungeon.floors) await insertRoomsForDungeon(...)
RECURSIVE insertFloorRooms(_, _, _, _)
insertFloorRooms(db, d, k, fault) ==
  IF k > Len(d.floors) THEN DbResult(db, "", JsNull)
  ELSE LET inserted == insertRoomsForDungeon(db, d.id, d.floors[k].rooms,
                         floorId(d.id, d.floors[k].floorNumber), fault)
       IN IF inserted.error # "" THEN inserted
          ELSE insertFloorRooms(inserted.database, d, k + 1, fault)

\* rows ordered by coord_y, then coord_x
RECURSIVE orderedRooms(_)
orderedRooms(rows) ==
  IF rows = {} THEN <<>>
  ELSE LET first == CHOOSE row \in rows : \A other \in rows :
                      \/ row.coord_y < other.coord_y
                      \/ row.coord_y = other.coord_y /\ row.coord_x <= other.coord_x
       IN <<first>> \o orderedRooms(rows \ {first})

\* SupabaseDatabase.buildRoomFromRow
buildRoomFromRow(row) ==
  [id |-> row.id, type |-> row.type,
   coordinates |-> IF row.coord_z # 0
                   THEN [x |-> row.coord_x, y |-> row.coord_y, z |-> row.coord_z]
                   ELSE [x |-> row.coord_x, y |-> row.coord_y],
   description |-> row.description, connections |-> <<>>,
   visited |-> row.visited, cleared |-> row.cleared]

builtRooms(rows) ==
  [k \in 1..Cardinality(rows) |-> buildRoomFromRow(orderedRooms(rows)[k])]

\* floor rows ordered by floor_number
RECURSIVE orderedFloors(_)
orderedFloors(rows) ==
  IF rows = {} THEN <<>>
  ELSE LET first == CHOOSE row \in rows :
                      \A other \in rows : row.floor_number <= other.floor_number
       IN <<first>> \o orderedFloors(rows \ {first})

\* SupabaseDatabase.getDungeonById; JsNull when there is no such row
dbGetDungeonById(db, id) ==
  IF ~\E row \in db.dungeons : row.id = id THEN JsNull
  ELSE LET row == CHOOSE row \in db.dungeons : row.id = id
           floorsData == orderedFloors({f \in db.floors : f.dungeon_id = id})
           floors == [k \in 1..Len(floorsData) |->
                        [floorNumber |-> floorsData[k].floor_number,
                         name |-> floorsData[k].name,
                         description |-> floorsData[k].description,
                         rooms |-> builtRooms({r \in db.rooms :
                                      r.floor_id = floorsData[k].id})]]
           size == IF row.size_depth = JsNull
                   THEN [width |-> row.size_width, height |-> row.size_height]
                   ELSE [width |-> row.size_width, height |-> row.size_height,
                         depth |-> row.size_depth.jsNumber]
           found == [id |-> row.id, name |-> row.name,
                     difficulty |-> row.difficulty, level |-> row.level,
                     size |-> size, description |-> row.description,
                     rooms |-> IF Len(floorsData) > 0 THEN flatMapRooms(floors, 1)
                               ELSE builtRooms({r \in db.rooms : r.dungeon_id = id}),
                     createdAt |-> row.created_at, updatedAt |-> row.updated_at]
       IN IF Len(floorsData) > 0 THEN With(found, "floors", floors) ELSE found

\* SupabaseDatabase.deleteDungeon: the delete of no row is no error
dbDeleteDungeon(db, id, fault) ==
  IF fault = "deleteFails" THEN DbResult(db, "Failed to delete dungeon", JsNull)
  ELSE DbResult([dungeons |-> {row \in db.dungeons : row.id # id},
              floors |-> {row \in db.floors : row.dungeon_id # id},
              rooms |-> {row \in db.rooms : row.dungeon_id # id}], "", JsNull)

\* SupabaseDatabase.createDungeon
dbCreateDungeon(db, d, fault) ==
  IF fault = "dungeonFails" \/ repeatsKey(db.dungeons, {dungeonRow(d)})
  THEN DbResult(db, "Failed to create dungeon", JsNull)
  ELSE LET withRow == [db EXCEPT !.dungeons = @ \cup {dungeonRow(d)}]
           inserted ==
             IF hasFloors(d)
             THEN IF fault = "floorsFail"
                  THEN DbResult(dbDeleteDungeon(withRow, d.id, "ok").database,
                             "Failed to create floors", JsNull)
                  ELSE insertFloorRooms(
                         [withRow EXCEPT !.floors = @ \cup floorRows(d)], d, 1, fault)
             ELSE insertRoomsForDungeon(withRow, d.id, d.rooms, JsNull, fault)
       IN IF inserted.error # "" THEN inserted
          ELSE DbResult(inserted.database, "",
                     dbGetDungeonById(inserted.database, d.id))

\* SupabaseDatabase.updateDungeon
dbUpdateDungeon(db, id, d, fault) ==
  LET deleted == dbDeleteDungeon(db, id, fault)
  IN IF deleted.error # "" THEN deleted
     ELSE dbCreateDungeon(deleted.database, d, fault)

-----------------------------------------------------------------------------
(* GET, POST, PUT and DELETE of app/api/dungeon/route.ts over the adapter    *)
(* that STORAGE_MODE selects, and GET of app/api/custom/[[...path]]/route.ts *)

MaxStored == 2

Answered(file, db, answer) ==
  [stored |-> file, database |-> db, response |-> answer]

\* FileStorageAdapter.deleteDungeon behind DELETE
DELETE(req, file, io) ==
  IF req.id = NoId THEN ErrorResponse(400, "Dungeon ID is required")
  ELSE LET dungeons == getAllDungeons(file, io)
           filtered == SelectSeq(dungeons, LAMBDA d : d.id # req.id)
       IN IF Len(filtered) = Len(dungeons)
          THEN ErrorResponse(404, "Dungeon not found")
          ELSE IF io = "writeFails"
          THEN ErrorResponse(400, "Failed to save dungeons")
          ELSE Response(200, [success |-> TRUE, data |-> [id |-> req.id]])

\* the file DELETE leaves behind
afterDELETE(req, file, io) ==
  IF DELETE(req, file, io).status = 200
  THEN SelectSeq(getAllDungeons(file, io), LAMBDA d : d.id # req.id)
  ELSE file

\* GET ?id=<dungeonId> without floor: storage.getDungeonById behind GET
GET(id, storageMode, file, db) ==
  LET index == findIndex(file, id)
      dungeonFound == IF storageMode = "file"
                      THEN IF index = 0 THEN JsNull ELSE file[index]
                      ELSE dbGetDungeonById(db, id)
  IN IF dungeonFound = JsNull THEN ErrorResponse(404, "Dungeon not found")
     ELSE Response(200, [success |-> TRUE, data |-> dungeonFound])

\* POST over SupabaseStorageAdapter
POSTSupabase(req, db, fault) ==
  IF req.body = Unparsable
  THEN Answered(<<>>, db, ErrorResponse(400, "SyntaxError"))
  ELSE LET document == With(With(req.body, "createdAt", "now"), "updatedAt", "now")
           validation == validateDungeon(document)
           created == dbCreateDungeon(db, document, fault)
       IN IF rejects(validation)
          THEN Answered(<<>>, db, rejected(validation, document, <<>>).response)
          ELSE IF created.error # ""
          THEN Answered(<<>>, created.database, ErrorResponse(400, created.error))
          ELSE Answered(<<>>, created.database,
                        Response(201, [success |-> TRUE, data |-> created.dungeon]))

\* PUT over SupabaseStorageAdapter: no error of the database has the
\* message 'Dungeon not found', so the catch block answers 400
PUTSupabase(req, db, fault) ==
  IF req.id = NoId
  THEN Answered(<<>>, db, ErrorResponse(400, "Dungeon ID is required"))
  ELSE IF req.body = Unparsable
  THEN Answered(<<>>, db, ErrorResponse(400, "SyntaxError"))
  ELSE LET document == With(With(req.body, "id", req.id), "updatedAt", "now")
           validation == validateDungeon(document)
           updated == dbUpdateDungeon(db, req.id, document, fault)
       IN IF rejects(validation)
          THEN Answered(<<>>, db, rejected(validation, document, <<>>).response)
          ELSE IF updated.error # ""
          THEN Answered(<<>>, updated.database, ErrorResponse(400, updated.error))
          ELSE Answered(<<>>, updated.database,
                        Response(200, [success |-> TRUE, data |-> updated.dungeon]))

\* DELETE over SupabaseStorageAdapter
DELETESupabase(req, db, fault) ==
  IF req.id = NoId
  THEN Answered(<<>>, db, ErrorResponse(400, "Dungeon ID is required"))
  ELSE LET deleted == dbDeleteDungeon(db, req.id, fault)
       IN IF deleted.error # ""
          THEN Answered(<<>>, db, ErrorResponse(400, deleted.error))
          ELSE Answered(<<>>, deleted.database,
                        Response(200, [success |-> TRUE, data |-> [id |-> req.id]]))

\* GET of the custom route: the configuration file and the dungeon data
\* file are read, whatever the storage mode
customGET(pathSegments, configs, file) ==
  LET fullPath == <<"/api/", "custom/">> \o pathSegments
      matching == {n \in 1..Len(configs) :
                     configs[n].path = fullPath /\ configs[n].enabled}
      endpointConfig == configs[CHOOSE n \in matching : \A m \in matching : n <= m]
      index == findIndex(file, endpointConfig.dungeonId)
  IN IF matching = {}
     THEN ErrorResponse(404, "Endpoint not found or not enabled")
     ELSE IF index = 0
     THEN ErrorResponse(404, "Dungeon not found for this endpoint")
     ELSE Response(200, [success |-> TRUE, data |-> file[index]])

\* the documents sent: an entrance and a boss room in a flat list or on two
\* floors, a document without rooms, and text that is not JSON
StoreRooms(tag) ==
  [i \in 1..2 |-> [BaseRoom(i) EXCEPT !.id = tag \o "-" \o IdName[i]]]

StoreBodies ==
  {[FlatDungeon(1, StoreRooms("a")) EXCEPT !.id = "d1"],
   [FlatDungeon(1, StoreRooms("a")) EXCEPT !.id = "d2"],
   [FloorDungeon(1, SizeWithDepth(2), <<>>,
                 <<Floor(1, <<StoreRooms("b")[1]>>),
                   Floor(2, <<StoreRooms("b")[2]>>)>>) EXCEPT !.id = "d2"],
   FlatDungeon(1, <<>>),
   Unparsable}

StoreIds == {"d1", "d2"}

Faults(storageMode) ==
  IF storageMode = "file" THEN IoOutcomes
  ELSE {"ok", "dungeonFails", "floorsFail", "roomsFail", "deleteFails"}

\* an enabled configuration, a disabled one and one for a path outside
\* /api/custom/, all for dungeon d1
StoreEndpoints ==
  <<EndpointConfig("e1", <<"/api/", "custom/", "a">>),
    [EndpointConfig("e2", <<"/api/", "custom/", "b">>) EXCEPT !.enabled = FALSE]>>

\* an empty store under either storage mode
InitStore ==
  /\ mode \in {"file", "supabase"}
  /\ stored = <<>>
  /\ database = EmptyDatabase
  /\ endpoints = StoreEndpoints
  /\ request = NotUsed
  /\ response = NoResult
  /\ handed = NotUsed
  /\ inflight = <<>>
  /\ editor = NotUsed
  /\ pc = "serving"
  /\ ValidatorIdle
  /\ ImportIdle

Serve(req, answered) ==
  /\ request' = req
  /\ stored' = answered.stored
  /\ database' = answered.database
  /\ response' = answered.response
  /\ UNCHANGED <<validatorVars, importVars, handed, mode, endpoints, inflight,
                 editor>>

PostDungeon ==
  /\ pc = "serving"
  /\ Len(stored) < MaxStored
  /\ \E body \in StoreBodies, io \in Faults(mode) :
       LET req == [method |-> "POST", id |-> NoId, body |-> body]
       IN Serve(req, IF mode = "file"
                     THEN Answered(POST(req, stored, io).stored, database,
                                   POST(req, stored, io).response)
                     ELSE [POSTSupabase(req, database, io) EXCEPT !.stored = stored])

PutDungeon ==
  /\ pc = "serving"
  /\ \E body \in StoreBodies, id \in StoreIds \cup {NoId}, io \in Faults(mode) :
       LET req == [method |-> "PUT", id |-> id, body |-> body]
       IN Serve(req, IF mode = "file"
                     THEN Answered(PUT(req, stored, io).stored, database,
                                   PUT(req, stored, io).response)
                     ELSE [PUTSupabase(req, database, io) EXCEPT !.stored = stored])

DeleteDungeon ==
  /\ pc = "serving"
  /\ \E id \in StoreIds \cup {NoId}, io \in Faults(mode) :
       LET req == [method |-> "DELETE", id |-> id, body |-> NotUsed]
       IN Serve(req, IF mode = "file"
                     THEN Answered(afterDELETE(req, stored, io), database,
                                   DELETE(req, stored, io))
                     ELSE [DELETESupabase(req, database, io) EXCEPT !.stored = stored])

GetDungeon ==
  /\ pc = "serving"
  /\ \E id \in StoreIds :
       Serve([method |-> "GET", id |-> id, body |-> NotUsed],
             Answered(stored, database, GET(id, mode, stored, database)))

GetCustom ==
  /\ pc = "serving"
  /\ \E pathSegments \in {<<"a">>, <<"b">>, <<"c">>} :
       Serve([method |-> "GET custom", id |-> NoId, body |-> NotUsed,
              path |-> pathSegments],
             Answered(stored, database, customGET(pathSegments, endpoints, stored)))

NextStore ==
  PostDungeon \/ PutDungeon \/ DeleteDungeon \/ GetDungeon \/ GetCustom

SpecStore == InitStore /\ [][NextStore]_vars

-----------------------------------------------------------------------------
(* C22, C26, C28, C30 *)

StoredIds ==
  IF mode = "file" THEN {stored[n].id : n \in 1..Len(stored)}
  ELSE {row.id : row \in database.dungeons}

SameAnswer(one, other) ==
  /\ one.status = other.status
  /\ one.status = 200 => one.body.data = other.body.data

\* C22: GET of a path under /api/custom/ that has an enabled configuration
\* returns what GET /api/dungeon?id=D returns in the same state for the
\* dungeonId D of the configuration (the dungeon, or 404), and GET of a path
\* that has none returns 404.
C22_CustomServesStoredDungeon ==
  [][request'.method = "GET custom" =>
       LET fullPath == <<"/api/", "custom/">> \o request'.path
           enabled == {n \in 1..Len(endpoints) :
                         endpoints[n].path = fullPath /\ endpoints[n].enabled}
       IN /\ enabled = {} => response'.status = 404
          /\ \A n \in enabled :
               SameAnswer(response',
                          GET(endpoints[n].dungeonId, mode, stored, database))]_vars

\* C26: a PUT with a valid body or a DELETE whose id is the id of no stored
\* dungeon is answered 404 and changes neither the data file nor the
\* database.
C26_UnknownIdIsNotFound ==
  [][(/\ request'.method \in {"PUT", "DELETE"}
      /\ request'.id \notin StoredIds \cup {NoId}
      /\ request'.method = "PUT" =>
           /\ request'.body # Unparsable
           /\ ~rejects(validateDungeon(With(request'.body, "id", request'.id)))) =>
       /\ response'.status = 404
       /\ stored' = stored /\ database' = database]_vars

\* C28: no two stored dungeons have the same id.
C28_UniqueDungeonIds ==
  /\ \A m, n \in 1..Len(stored) : m # n => stored[m].id # stored[n].id
  /\ mode = "supabase" =>
       \A one, other \in database.dungeons : one # other => one.id # other.id

\* C30: under the Supabase adapter a POST or PUT that is answered with an
\* error leaves the database as it was: no row of the new dungeon remains
\* and the rows of the dungeon that was to be updated are still there.
C30_AllOrNothing ==
  [][(/\ mode = "supabase"
      /\ request'.method \in {"POST", "PUT"}
      /\ response'.status \notin {200, 201}) =>
       database' = database]_vars

-----------------------------------------------------------------------------
(* Two POST /api/dungeon requests handled at once over the file adapter.     *)
(* A handler runs without interruption from one await to the next: up to    *)
(* the readFile of getAllDungeons, from there to the writeFile of           *)
(* saveDungeons, and from there to its response.                            *)

Requests == {1, 2}

InFlight(at, document, dungeons, answer) ==
  [pc |-> at, document |-> document, dungeons |-> dungeons, response |-> answer]

\* two requests received, the data file empty or holding one dungeon
InitRace ==
  /\ inflight \in [Requests -> {InFlight("received", body, <<>>, NoResult) :
                                  body \in StoreBodies}]
  /\ stored \in {<<>>, <<StoredDungeon("d0")>>}
  /\ mode = "file"
  /\ pc = "racing"
  /\ database = NotUsed
  /\ endpoints = <<>>
  /\ editor = NotUsed
  /\ request = NotUsed
  /\ handed = NotUsed
  /\ response = NoResult
  /\ ValidatorIdle
  /\ ImportIdle

RaceStep(p, next) ==
  /\ inflight' = [inflight EXCEPT ![p] = next]
  /\ UNCHANGED <<validatorVars, importVars, request, handed, response, mode,
                 database, endpoints, editor>>

\* POST up to the call of storage.createDungeon
Receive(p) ==
  /\ pc = "racing"
  /\ inflight[p].pc = "received"
  /\ LET req == [method |-> "POST", id |-> NoId, body |-> inflight[p].document]
         document == With(With(req.body, "createdAt", "now"), "updatedAt", "now")
     IN IF req.body = Unparsable \/ rejects(validateDungeon(document))
        THEN RaceStep(p, InFlight("responded", req.body, <<>>,
                                  POST(req, stored, "ok").response))
        ELSE RaceStep(p, InFlight("reading", document, <<>>, NoResult))
  /\ UNCHANGED stored

\* the readFile of getAllDungeons completes; the file is readable
Read(p) ==
  /\ pc = "racing"
  /\ inflight[p].pc = "reading"
  /\ RaceStep(p, [inflight[p] EXCEPT !.pc = "writing",
                                     !.dungeons = getAllDungeons(stored, "ok")])
  /\ UNCHANGED stored

\* dungeons.push(dungeon) and the writeFile of saveDungeons, then the response
Write(p) ==
  /\ pc = "racing"
  /\ inflight[p].pc = "writing"
  /\ \E io \in {"ok", "writeFails"} :
       LET created == createDungeon(NoResult, inflight[p].document,
                                    inflight[p].dungeons, io)
       IN /\ stored' = IF io = "ok" THEN created.stored ELSE stored
          /\ RaceStep(p, [inflight[p] EXCEPT !.pc = "responded",
                                             !.response = created.response])

NextRace == \E p \in Requests : Receive(p) \/ Read(p) \/ Write(p)

SpecRace == InitRace /\ [][NextRace]_vars

-----------------------------------------------------------------------------
(* C21 *)

\* C21: once two POST requests handled at once have both been answered 201,
\* the dungeons of both are in the data file.
C21_NoAcceptedDungeonLost ==
  (\A p \in Requests :
     inflight[p].pc = "responded" /\ inflight[p].response.status = 201) =>
    \A p \in Requests :
      \E n \in 1..Len(stored) : stored[n] = inflight[p].document

-----------------------------------------------------------------------------
(* importDungeon and saveDungeon of app/dungeons/page.tsx; importDungeon of  *)
(* app/about/page.tsx is the same code.  The file read is held in legacy,    *)
(* the value of DungeonHelpers.convertLegacyFormat, if it was called, in     *)
(* converted, and a call of DungeonValidator.validateDungeon, wherever it is *)
(* made, leaves its argument in dungeon and its value in result.             *)

Editing(view, selectedDungeon, error) ==
  [view |-> view, selectedDungeon |-> selectedDungeon, error |-> error]

\* typeof v === 'number', asked only of the ids of rooms that have x and y,
\* which are numbers in every file explored
isNumber(v) == v \in Int

\* firstDungeon?.rooms?.[0] of the file is a room with a numeric id, x and y
looksLegacy(data) ==
  LET firstDungeon == IF Len(data.dungeons.array) > 0
                      THEN data.dungeons.array[1] ELSE JsUndefined
      rooms == IF Nullish(firstDungeon) THEN JsUndefined
               ELSE Get(firstDungeon, "rooms")
      firstRoom == IF IsArray(rooms) /\ Len(rooms.array) > 0
                   THEN rooms.array[1] ELSE JsUndefined
  IN /\ ~Nullish(firstRoom)
     /\ Has(firstRoom, "id") /\ Has(firstRoom, "x") /\ Has(firstRoom, "y")
     /\ isNumber(firstRoom.id)

\* A file read by the page holds its lists as the importer reads them, as
\* JsArray values; the validator reads the rooms of a dungeon as a plain list.
Parsed(d) == [d EXCEPT !.rooms = JsArray(d.rooms)]
roomsUnwrapped(d) ==
  IF hasList(d, "rooms") THEN [d EXCEPT !.rooms = d.rooms.array] ELSE d

\* the end of the handler: the first dungeon is opened in the editor, with a
\* generated id if it has none
openFirst(current, importedDungeons, idStream) ==
  IF Len(importedDungeons) = 0
  THEN [current EXCEPT !.error = "No valid dungeons found in file."]
  ELSE IF Nullish(importedDungeons[1])
  THEN [current EXCEPT !.error = "Failed to import dungeon. Invalid JSON format."]
  ELSE Editing("edit",
               roomsUnwrapped(
                 IF ~Has(importedDungeons[1], "id") \/ importedDungeons[1].id = ""
                 THEN With(importedDungeons[1], "id", generateId(idStream, 1))
                 ELSE importedDungeons[1]), "")

\* input.onchange of importDungeon
importDungeon(current, data, conversion, idStream) ==
  IF data = Unparsable \/ Nullish(data)
  THEN [current EXCEPT !.error = "Failed to import dungeon. Invalid JSON format."]
  ELSE IF hasList(data, "dungeons")
  THEN IF looksLegacy(data)
       THEN IF conversion.kind = "threw"
            THEN [current EXCEPT !.error = "Failed to import dungeon. Invalid JSON format."]
            ELSE IF Len(conversion.dungeons) > 0
            THEN Editing("edit", conversion.dungeons[1], "")
            ELSE [current EXCEPT !.error = "No valid dungeons found in file."]
       ELSE openFirst(current, data.dungeons.array, idStream)
  ELSE IF (Has(data, "id") /\ data.id # "") \/ (Has(data, "name") /\ data.name # "")
  THEN openFirst(current, <<data>>, idStream)
  ELSE [current EXCEPT !.error = "No valid dungeons found in file."]

\* files in the current format, a single dungeon and files without dungeons
CurrentFiles ==
  {[dungeons |-> JsArray(<<Parsed(StoredDungeon("d1"))>>)],
   [dungeons |-> JsArray(<<Parsed(FlatDungeon(1, <<>>))>>)],
   [dungeons |-> JsArray(<<>>)],
   Parsed(StoredDungeon("d2")),
   Without(Parsed(StoredDungeon("d2")), "id"),
   [version |-> 1],
   JsNull,
   Unparsable}

\* the dungeons page showing its list, and the file the user picks
InitBrowser ==
  /\ \/ InitLegacyGrid
     \/ InitLegacyLevels
     \/ legacy \in CurrentFiles /\ ids = FreshIds(1)
  /\ editor = Editing("list", JsNull, "")
  /\ converted = NoResult
  /\ pc = "picked"
  /\ mode = "file"
  /\ database = NotUsed
  /\ endpoints = <<>>
  /\ inflight = <<>>
  /\ ValidatorIdle
  /\ RouteIdle

ImportDungeon ==
  /\ pc = "picked"
  /\ LET called == legacy # Unparsable /\ ~Nullish(legacy)
                   /\ hasList(legacy, "dungeons") /\ looksLegacy(legacy)
         conversion == IF called THEN convertLegacyFormat(legacy, ids) ELSE NoResult
     IN /\ converted' = conversion
        /\ editor' = importDungeon(editor, legacy, conversion, ids)
  /\ pc' = "imported"
  /\ UNCHANGED <<dungeon, result, allRooms, legacy, ids, routeVars, mode, database,
                 endpoints, inflight>>

\* saveDungeon: the dungeons list of the page is empty, so the dungeon is
\* new and is sent with POST /api/dungeon, whose handler validates it
SaveDungeon ==
  /\ pc = "imported"
  /\ editor.view = "edit"
  /\ LET req == [method |-> "POST", id |-> NoId, body |-> editor.selectedDungeon]
         outcome == POST(req, stored, "ok")
     IN /\ request' = req
        /\ result' = outcome.result
        /\ dungeon' = outcome.dungeon
        /\ handed' = outcome.handed
        /\ stored' = outcome.stored
        /\ response' = outcome.response
        /\ editor' = IF outcome.response.status = 201
                     THEN Editing("list", JsNull, "")
                     ELSE [editor EXCEPT !.error = outcome.response.body.error]
  /\ pc' = "saved"
  /\ UNCHANGED <<allRooms, importVars, mode, database, endpoints, inflight>>

NextBrowser == ImportDungeon \/ SaveDungeon

SpecBrowser == InitBrowser /\ [][NextBrowser]_vars

-----------------------------------------------------------------------------
(* C23 *)

\* C23: whenever the editor is open on a dungeon that convertLegacyFormat
\* returned, validateDungeon has been called on that dungeon.
C23_ImportedIsValidated ==
  (/\ editor # NotUsed /\ editor.view = "edit"
   /\ converted.kind = "returned"
   /\ \E k \in 1..Len(converted.dungeons) :
        editor.selectedDungeon = converted.dungeons[k]) =>
    /\ result # NoResult
    /\ Without(Without(dungeon, "createdAt"), "updatedAt")
         = Without(Without(editor.selectedDungeon, "createdAt"), "updatedAt")

====
